---------------------------- MODULE Spec2Model ----------------------------
(***************************************************************************)
(* CommonMark to HTML conversion of ttencate/commonmark.                   *)
(*                                                                         *)
(* A conversion is modelled as a state machine: the line scanner           *)
(* (bufio.Scanner with the scanLines split function) hands the block       *)
(* parser one line at a time; for every line the block parser matches the  *)
(* open blocks (phase 1), opens new blocks (phase 2, one action per loop   *)
(* iteration) and appends the rest of the line to the tip (phase 3).  At   *)
(* the end of the input the inline pass and the HTML renderer run.         *)
(*                                                                         *)
(* Bytes are one-character strings, byte slices are sequences of them.     *)
(* Go indices are 0-based; the sequences here are 1-based, so Go's         *)
(* line[i] is line[i + 1] below.                                           *)
(***************************************************************************)
EXTENDS Integers, Sequences, FiniteSets, TLC

VARIABLES
    data,        \* the input bytes handed to ToHTMLBytes
    scanner,     \* the bufio.Scanner: start, end, buffer length, error
    line,        \* the local variable `line` of blockParser.parse
    nodes,       \* all blocks created so far (the heap); nodes[1] is the document
    openBlocks,  \* blockParser.openBlocks: indices into nodes, bottom first
    pc,          \* where the conversion stands
    out,         \* the bytes ToHTMLBytes returns, or ToHTML has written
    err,         \* the error ToHTMLBytes returns
    rawText,     \* the raw text of a paragraph handed to parseInlines
    heap,        \* the parse tree nodes (ast.go) and the panic raised, if any
    em,          \* processEmphasis: nodes still to visit, child, i and stack
    calls        \* the calls a client of the tree operations has made

vars == <<data, scanner, line, nodes, openBlocks, pc, out, err, rawText, heap, em, calls>>

-----------------------------------------------------------------------------
(* Bounds of the model. *)

\* Lines per input drawn from the line vocabulary.
MaxLines == 3

\* Length of the lines over spaces, "-" and "*" enumerated byte by byte.
MaxRuleLen == 7

\* Length of the lines over spaces, "-", "_" and "a" enumerated byte by byte.
MaxMixedLen == 4

\* Length of the paragraph texts over a backtick, "a" and " ".
MaxCodeLen == 7

\* Length of the content of the texts that are one code span.
MaxSpanLen == 4

\* The longest text of delimiters, letters and spaces.
MaxEmLen == 6

\* The longest text of delimiters, backslashes and angle brackets.
MaxBoundaryLen == 4

\* The longest text of backslashes, angle brackets and asterisks.
MaxEscLen == 5

\* The longest candidate between angle brackets.
MaxLinkLen == 5

\* The most digits of an entity.
MaxDigits == 9

\* The most spaces and backslashes at the end of a line.
MaxBreakTail == 3

\* The longest line with tabs.
MaxTabLine == 5

\* The nodes the client of the tree operations has made.
NumNodes == 4

\* The longest text of characters to escape.
MaxEscapedLen == 4

\* The lines of an input of block quote lines.
MaxQuoteLines == 3

\* The bytes of a line, and the lines of an input, that preprocess is given.
MaxRawLen == 3
MaxRawLines == 2

\* The most pairs of delimiters around a text.
MaxNest == 4

\* The nesting depth that stands for the maximum depth of the analyzer.
DepthLimit == 3

\* The calls the client of the tree operations makes.
MaxCalls == 3

\* bufio's initial buffer size (4096 in the library), scaled down.
StartBufSize == 4

\* bufio.MaxScanTokenSize (64 * 1024 in the library), scaled down.
MaxScanTokenSize == 16

-----------------------------------------------------------------------------
(* Byte-slice helpers. *)

Min(a, b) == IF a < b THEN a ELSE b

\* s[from:to] of Go, with 0-based from and to.
Slice(s, from, to) == SubSeq(s, from + 1, to)

\* s[from:] of Go.
From(s, from) == SubSeq(s, from + 1, Len(s))

RECURSIVE Repeat(_, _)
Repeat(c, n) == IF n <= 0 THEN <<>> ELSE <<c>> \o Repeat(c, n - 1)

RECURSIVE Concat(_)
Concat(ss) == IF ss = <<>> THEN <<>> ELSE Head(ss) \o Concat(Tail(ss))

\* bytes.TrimLeft(s, " ")
RECURSIVE TrimLeftSpaces(_)
TrimLeftSpaces(s) ==
    IF s # <<>> /\ Head(s) = " " THEN TrimLeftSpaces(Tail(s)) ELSE s

\* bytes.TrimRight(s, " ")
RECURSIVE TrimRightSpaces(_)
TrimRightSpaces(s) ==
    IF s # <<>> /\ s[Len(s)] = " "
    THEN TrimRightSpaces(SubSeq(s, 1, Len(s) - 1))
    ELSE s

\* unicode.IsSpace on the bytes of the model's alphabet.
IsSpace(c) == c \in {" ", "\n", "\t", "\r"}

\* bytes.TrimRightFunc(s, unicode.IsSpace)
RECURSIVE TrimRightWhitespace(_)
TrimRightWhitespace(s) ==
    IF s # <<>> /\ IsSpace(s[Len(s)])
    THEN TrimRightWhitespace(SubSeq(s, 1, Len(s) - 1))
    ELSE s

-----------------------------------------------------------------------------
(* The line scanner. *)

\* scanLines: advance, token and whether a token is returned (token != nil).
RECURSIVE scanLinesFrom(_, _, _)
scanLinesFrom(d, atEOF, i) ==
    IF i >= Len(d)
    THEN IF atEOF
         THEN [advance |-> Len(d), token |-> d, some |-> TRUE]
         ELSE [advance |-> 0, token |-> <<>>, some |-> FALSE]
    ELSE IF d[i + 1] = "\r"
         THEN IF i + 1 < Len(d) /\ d[i + 2] = "\n"
              THEN [advance |-> i + 2, token |-> Slice(d, 0, i), some |-> TRUE]
              ELSE [advance |-> i + 1, token |-> Slice(d, 0, i), some |-> TRUE]
         ELSE IF d[i + 1] = "\n"
              THEN [advance |-> i + 1, token |-> Slice(d, 0, i), some |-> TRUE]
              ELSE scanLinesFrom(d, atEOF, i + 1)

scanLines(d, atEOF) ==
    IF atEOF /\ Len(d) = 0
    THEN [advance |-> 0, token |-> <<>>, some |-> FALSE]
    ELSE scanLinesFrom(d, atEOF, 0)

\* bufio.NewScanner(bytes.NewReader(data)) with Split(scanLines).  The buffer
\* always holds a window of the input: buf[k] is input byte base + k.
newScanner ==
    [start |-> 0, end |-> 0, bufLen |-> StartBufSize, base |-> 0, err |-> "nil"]

\* The bytes buf[start:end] the split function is shown.
Buffered(d, s) == Slice(d, s.base + s.start, s.base + s.end)

\* Scanner.Scan: loops until the split function returns a token, the input
\* ends, or the buffer cannot grow any more.
RECURSIVE Scan(_, _)
Scan(d, s) ==
    LET r == scanLines(Buffered(d, s), s.err # "nil")
        tryToken == s.end > s.start \/ s.err # "nil"
    IN
    IF tryToken /\ r.some
    THEN [ok |-> TRUE, token |-> r.token,
          sc |-> [s EXCEPT !.start = s.start + r.advance]]
    ELSE IF s.err # "nil"
    THEN [ok |-> FALSE, token |-> <<>>, sc |-> [s EXCEPT !.start = 0, !.end = 0,
                                                        !.base = s.base + s.end]]
    ELSE
        LET shift == s.start > 0 /\ (s.end = s.bufLen \/ 2 * s.start > s.bufLen)
            s1 == IF shift
                  THEN [s EXCEPT !.base = s.base + s.start,
                                 !.end = s.end - s.start, !.start = 0]
                  ELSE s
        IN
        IF s1.end = s1.bufLen /\ s1.bufLen >= MaxScanTokenSize
        THEN [ok |-> FALSE, token |-> <<>>, sc |-> [s1 EXCEPT !.err = "ErrTooLong"]]
        ELSE
            LET s2 == IF s1.end = s1.bufLen
                      THEN [s1 EXCEPT !.bufLen = Min(2 * s1.bufLen, MaxScanTokenSize),
                                      !.base = s1.base + s1.start,
                                      !.end = s1.end - s1.start, !.start = 0]
                      ELSE s1
                n == Min(s2.bufLen - s2.end, Len(d) - (s2.base + s2.end))
                s3 == IF n = 0
                      THEN [s2 EXCEPT !.err = "EOF"]
                      ELSE [s2 EXCEPT !.end = s2.end + n]
            IN Scan(d, s3)

\* Scanner.Err: end of input is not an error.
ScannerErr(s) == IF s.err = "EOF" THEN "nil" ELSE s.err

\* Of the bytes above 0x7F the model has three: the first byte of a
\* two-byte character, a continuation byte, and a byte that no UTF-8 text
\* holds.
leadBytes == {"xc3"}
continuationBytes == {"xbf"}
invalidBytes == {"xff"}

\* fmt.Sprintf("%c", utf8.RuneError)
runeErrorBytes == <<"xef", "xbf", "xbd">>

\* tabsToSpaces that returns the line as it is.
keepTabs(l) == l

\* Every tab becomes four spaces.
RECURSIVE tabsToFourSpaces(_)
tabsToFourSpaces(l) ==
    IF l = <<>> THEN <<>>
    ELSE (IF Head(l) = "\t" THEN <<" ", " ", " ", " ">> ELSE <<Head(l)>>)
         \o tabsToFourSpaces(Tail(l))

\* tabsToSpaces, second loop: `range string(line)` yields one character at
\* a time, U+FFFD for a byte that starts none; tabs become spaces up to the
\* next multiple of 4 characters of the output.
RECURSIVE expandTabs(_, _)
expandTabs(l, runeCount) ==
    IF l = <<>> THEN <<>>
    ELSE IF Head(l) = "\t"
         THEN LET numSpaces == 4 - (runeCount % 4)
              IN Repeat(" ", numSpaces) \o expandTabs(Tail(l), runeCount + numSpaces)
    ELSE IF Head(l) \in leadBytes /\ Len(l) >= 2 /\ l[2] \in continuationBytes
         THEN <<l[1], l[2]>> \o expandTabs(SubSeq(l, 3, Len(l)), runeCount + 1)
    ELSE IF Head(l) \in leadBytes \cup continuationBytes \cup invalidBytes
         THEN runeErrorBytes \o expandTabs(Tail(l), runeCount + 1)
    ELSE <<Head(l)>> \o expandTabs(Tail(l), runeCount + 1)

tabsToSpaces(l) ==
    IF \A k \in 1..Len(l) : l[k] # "\t" THEN l ELSE expandTabs(l, 0)

-----------------------------------------------------------------------------
(* Blocks. *)

\* A block: the struct `block` plus the dynamic type and atxHeader's level.
\* inlineContent is nil until processInlines sets it.
NewBlock(kind, level, content) ==
    [kind |-> kind, level |-> level, children |-> <<>>, content |-> content,
     inlineContent |-> [nil |-> TRUE, children |-> <<>>]]

AcceptsLines(kind) == kind \in {"paragraph", "indentedCodeBlock"}

AcceptsLiteralLines(kind) == kind = "indentedCodeBlock"

CanContain(kind) == kind \in {"document", "blockQuote"}

\* The index of the first non-space byte (0-based).  The assertion of the Go
\* function fails when there is none; see indentationAsserts.
RECURSIVE indentation(_)
indentation(l) ==
    IF l = <<>> THEN 0
    ELSE IF Head(l) # " " THEN 0
    ELSE IF \A k \in 1..Len(l) : l[k] = " " THEN 0
    ELSE 1 + indentation(Tail(l))

indentationAsserts(l) == \A k \in 1..Len(l) : l[k] = " "

\* line[indentation(line)], the first non-space byte.
FirstNonSpace(l) == l[indentation(l) + 1]

isBlank(l) ==
    IF \A k \in 1..Len(l) : l[k] = " " THEN TRUE
    ELSE indentation(l) = Len(l) - 1

\* A rule that may start at any index.
ruleStartsAnywhere(i) == FALSE

\* The first rule character may be indented by at most 3: index 4 is too far.
ruleStartsTooFar(i) == i >= 4

\* The loop of isHorizontalRule from index i on, with its locals char ("" is
\* the zero byte) and count.
RECURSIVE horizontalRuleFrom(_, _, _, _)
horizontalRuleFrom(l, i, char, count) ==
    IF i >= Len(l) THEN count >= 3
    ELSE LET c == l[i + 1] IN
         IF c # " " /\ c # "\n"
         THEN IF c # "-" /\ c # "_" /\ c # "*" THEN FALSE
              ELSE IF char = ""
                   THEN IF ruleStartsTooFar(i) THEN FALSE
                        ELSE horizontalRuleFrom(l, i + 1, c, 1)
                   ELSE IF c = char
                        THEN horizontalRuleFrom(l, i + 1, char, count + 1)
                        ELSE FALSE
         ELSE horizontalRuleFrom(l, i + 1, char, count)

isHorizontalRule(l) == horizontalRuleFrom(l, 0, "", 0)

\* The number of leading bytes of l equal to c.
RECURSIVE RunLength(_, _)
RunLength(l, c) ==
    IF l # <<>> /\ Head(l) = c THEN 1 + RunLength(Tail(l), c) ELSE 0

\* The start of the trailing run of c that ends before index ts (0-based).
RECURSIVE SkipBack(_, _, _)
SkipBack(l, ts, c) ==
    IF ts > 0 /\ l[ts] = c THEN SkipBack(l, ts - 1, c) ELSE ts

\* parseATXHeader: the level (1..6, or -1) and the raw content.
parseATXHeader(l) ==
    LET indent == indentation(l)
        l1 == From(l, indent)
        level == RunLength(l1, "#")
        l2 == From(l1, level)
        ts1 == SkipBack(l2, Len(l2) - 1, " ")
        ts2 == SkipBack(l2, ts1, "#")
        l3 == IF ts2 > 0 /\ l2[ts2] = " " THEN Slice(l2, 0, ts2) ELSE l2
    IN
    IF indent > 3 THEN [level |-> -1, content |-> <<>>]
    ELSE IF level < 1 \/ level > 6 THEN [level |-> -1, content |-> <<>>]
    ELSE IF l2[1] # " " /\ l2[1] # "\n" THEN [level |-> -1, content |-> <<>>]
    ELSE [level |-> level, content |-> TrimRightSpaces(TrimLeftSpaces(l3))]

\* setextUnderlineRe, ^ {0,3}(=+|-+) *\n$, and the level parseSetextUnderline
\* derives from its first group.
parseSetextUnderline(l) ==
    LET indent == RunLength(l, " ")
        l1 == From(l, indent)
        c == IF l1 = <<>> THEN "" ELSE l1[1]
        run == RunLength(l1, c)
        l2 == From(l1, run)
        l3 == From(l2, RunLength(l2, " "))
    IN
    IF indent <= 3 /\ c \in {"=", "-"} /\ l3 = <<"\n">>
    THEN IF c = "=" THEN 1 ELSE 2
    ELSE -1

\* A paragraph of any length passing for a one-line paragraph.
hasOneLineAlways(d) == TRUE

hasOneLine(d) ==
    /\ Len(d) # 0
    /\ \A k \in 1..(Len(d) - 1) : d[k] # "\n"

\* The marker stays on the line.
keepBlockQuoteMarker(l) == l

stripBlockQuoteMarker(l) ==
    LET l1 == From(l, indentation(l) + 1)
    IN IF l1[1] = " " THEN From(l1, 1) ELSE l1

-----------------------------------------------------------------------------
(* The block parser: p is [nodes, openBlocks]. *)

Tip(p) == p.openBlocks[Len(p.openBlocks)]

\* blockParser.openBlock
openBlock(p) == p.nodes[Tip(p)]

closeLastBlock(p) ==
    [p EXCEPT !.openBlocks = SubSeq(p.openBlocks, 1, Len(p.openBlocks) - 1)]

\* addChild that makes the child a child of the tip, whatever the tip is.
addChildToTip(p, child) ==
    LET id == Len(p.nodes) + 1
    IN [nodes |-> Append([p.nodes EXCEPT ![Tip(p)].children = Append(@, id)], child),
        openBlocks |-> Append(p.openBlocks, id)]

\* blockParser.addChild: closes open blocks until one can contain the child,
\* appends the child there and opens it.
RECURSIVE addChild(_, _)
addChild(p, child) ==
    IF p.openBlocks = <<>> THEN p
    ELSE IF CanContain(openBlock(p).kind)
    THEN LET id == Len(p.nodes) + 1
         IN [nodes |-> Append([p.nodes EXCEPT ![Tip(p)].children = Append(@, id)],
                              child),
             openBlocks |-> Append(p.openBlocks, id)]
    ELSE addChild(closeLastBlock(p), child)

\* blockParser.replaceOpenBlock: the new block takes the place of the last
\* child of the block below the tip, and of the tip.
replaceOpenBlock(p, b) ==
    LET id == Len(p.nodes) + 1
        n == Len(p.openBlocks)
        parent == p.openBlocks[n - 1]
    IN [nodes |-> Append([p.nodes EXCEPT ![parent].children =
                              [@ EXCEPT ![Len(@)] = id]], b),
        openBlocks |-> [p.openBlocks EXCEPT ![n] = id]]

\* AppendLine as it would be if a paragraph kept the leading spaces.
appendLineUnstripped(p, l) ==
    [p EXCEPT !.nodes[Tip(p)].content = @ \o l]

\* AppendLine of the tip: paragraph.AppendLine strips the leading spaces.
appendLine(p, l) ==
    LET t == Tip(p)
    IN [p EXCEPT !.nodes[t].content =
            IF p.nodes[t].kind = "paragraph" THEN @ \o TrimLeftSpaces(l) ELSE @ \o l]

\* An indented code block that a blank line would close.
indentedCodeBlockMatchesIndented(indent, blank) == indent >= 4

\* Whether an open indented code block continues on a line.
indentedCodeBlockMatches(indent, blank) == indent >= 4 \/ blank

\* A paragraph that a blank line would not close.
paragraphMatchesAlways(blank) == TRUE

\* Whether an open paragraph continues on a line.
paragraphMatches(blank) == ~blank

\* A block quote that no line continues.
blockQuoteNeverMatches(blank, hasMarker) == FALSE

\* A block quote that only a line with a marker would continue.
blockQuoteMatchesMarker(blank, hasMarker) == ~blank /\ hasMarker

\* Whether an open block quote continues on a line: also without a marker.
blockQuoteMatches(blank, hasMarker) == ~blank

\* Phase 1 from open block k (0-based) on: the index i of the last matched
\* block and the line with the matched markers removed.
RECURSIVE matchFrom(_, _, _)
matchFrom(p, l, k) ==
    IF k >= Len(p.openBlocks) THEN [i |-> Len(p.openBlocks) - 1, line |-> l]
    ELSE
        LET kind == p.nodes[p.openBlocks[k + 1]].kind
            indent == indentation(l)
            blank == l[indent + 1] = "\n"
        IN
        CASE kind = "indentedCodeBlock" ->
                IF indentedCodeBlockMatches(indent, blank)
                THEN matchFrom(p, IF Len(l) > 4 THEN From(l, 4)
                                  ELSE From(l, Len(l) - 1), k + 1)
                ELSE [i |-> k - 1, line |-> l]
          [] kind = "paragraph" ->
                IF paragraphMatches(blank)
                THEN matchFrom(p, l, k + 1)
                ELSE [i |-> k - 1, line |-> l]
          [] kind = "blockQuote" ->
                IF blockQuoteMatches(blank, l[indent + 1] = ">")
                THEN matchFrom(p, IF l[indent + 1] = ">"
                                  THEN stripBlockQuoteMarker(l) ELSE l, k + 1)
                ELSE [i |-> k - 1, line |-> l]
          [] OTHER -> matchFrom(p, l, k + 1)

\* Phase 1 with the closing of the unmatched blocks.
matchOpenBlocks(p, l) ==
    LET m == matchFrom(p, l, 0)
    IN [p |-> [p EXCEPT !.openBlocks = SubSeq(p.openBlocks, 1, m.i + 1)],
        line |-> m.line]

\* The branch one iteration of the phase 2 loop takes.
Branch(p, l) ==
    LET tip == openBlock(p)
        isParagraph == tip.kind = "paragraph"
    IN
    IF AcceptsLiteralLines(tip.kind) THEN "literal"
    ELSE IF ~isParagraph /\ indentation(l) >= 4 THEN "indentedCodeBlock"
    ELSE IF FirstNonSpace(l) = ">" THEN "blockQuote"
    ELSE IF parseATXHeader(l).level > 0 THEN "atxHeader"
    ELSE IF isParagraph /\ parseSetextUnderline(l) > 0 /\ hasOneLine(tip.content)
         THEN "setextHeader"
    ELSE IF isHorizontalRule(l) THEN "horizontalRule"
    ELSE IF isBlank(l) THEN "blank"
    ELSE IF ~AcceptsLines(tip.kind) THEN "paragraph"
    ELSE "break"

\* After a branch that does not leave the loop: leave it when the tip accepts
\* lines, else go round again.
LoopOrAppend(p) == IF AcceptsLines(openBlock(p).kind) THEN "append" ELSE "open"

\* One iteration of the phase 2 loop: the parser, the line, and where the
\* conversion goes next ("scan" when the line was consumed).
openStep(p, l) ==
    LET b == Branch(p, l) IN
    CASE b = "literal" -> [p |-> p, line |-> l, pc |-> "append"]
      [] b = "indentedCodeBlock" ->
            LET q == addChild(p, NewBlock("indentedCodeBlock", 0, <<>>))
            IN [p |-> q, line |-> From(l, 4), pc |-> LoopOrAppend(q)]
      [] b = "blockQuote" ->
            LET q == addChild(p, NewBlock("blockQuote", 0, <<>>))
            IN [p |-> q, line |-> stripBlockQuoteMarker(l), pc |-> LoopOrAppend(q)]
      [] b = "atxHeader" ->
            LET h == parseATXHeader(l)
                q == addChild(p, NewBlock("atxHeader", h.level, h.content))
            IN [p |-> closeLastBlock(q), line |-> <<>>, pc |-> "scan"]
      [] b = "setextHeader" ->
            LET q == replaceOpenBlock(p, NewBlock("atxHeader", parseSetextUnderline(l),
                                                  openBlock(p).content))
            IN [p |-> closeLastBlock(q), line |-> <<>>, pc |-> "scan"]
      [] b = "horizontalRule" ->
            LET q == addChild(p, NewBlock("horizontalRule", 0, <<>>))
            IN [p |-> closeLastBlock(q), line |-> <<>>, pc |-> "scan"]
      [] b = "blank" -> [p |-> p, line |-> <<>>, pc |-> "scan"]
      [] b = "paragraph" ->
            LET q == addChild(p, NewBlock("paragraph", 0, <<>>))
            IN [p |-> q, line |-> l, pc |-> LoopOrAppend(q)]
      [] OTHER -> [p |-> p, line |-> l, pc |-> "append"]


-----------------------------------------------------------------------------
(* The inline pass. *)

\* The byte 0x60, which a string of this language cannot hold.
backtick == "bt"

asciiPunct ==
    {"!", "\"", "#", "$", "%", "&", "'", "(", ")", "*", "+", ",", "-", ".", "/",
     ":", ";", "<", "=", ">", "?", "@", "[", "\\", "]", "^", "_", backtick, "{", "|", "}", "~"}

isASCIIPunct(c) == c \in asciiPunct

StringInline(content) == [type |-> "stringInline", content |-> content]

\* inlineParser.finalizeString: the pending string, if any, becomes a child.
finalizeString(ip) ==
    IF ip.stringStart >= ip.pos THEN ip
    ELSE [ip EXCEPT !.children =
              Append(@, StringInline(Slice(ip.data, ip.stringStart, ip.pos)))]

\* inlineParser.resetString
resetString(ip) == [ip EXCEPT !.stringStart = ip.pos]

\* The position after the spaces that start at pos.
RECURSIVE SkipSpaces(_, _)
SkipSpaces(d, pos) ==
    IF pos < Len(d) /\ d[pos + 1] = " " THEN SkipSpaces(d, pos + 1) ELSE pos

\* The position before the spaces that end at pos.
RECURSIVE SkipSpacesBack(_, _)
SkipSpacesBack(d, pos) ==
    IF pos > 0 /\ d[pos] = " " THEN SkipSpacesBack(d, pos - 1) ELSE pos

\* case '\n' of inlineParser.parse: a hard or soft line break.
parseLineBreak(ip) ==
    LET d == ip.data
        newlinePos == ip.pos
        twoSpaces == ip.pos >= 2 /\ d[ip.pos] = " " /\ d[ip.pos - 1] = " "
        pos1 == IF twoSpaces THEN ip.pos - 2 ELSE ip.pos
        backslash == pos1 >= 1 /\ d[pos1] = "\\"
        pos2 == IF backslash THEN pos1 - 1 ELSE pos1
        hardBreak == twoSpaces \/ backslash
        ip1 == finalizeString([ip EXCEPT !.pos = SkipSpacesBack(d, pos2)])
        inline == [type |-> IF hardBreak THEN "hardLineBreak" ELSE "softLineBreak",
                   content |-> <<>>]
    IN resetString([ip1 EXCEPT !.children = Append(@, inline),
                               !.pos = SkipSpaces(d, newlinePos + 1)])

\* case '\\' of inlineParser.parse: an escaped punctuation byte.
parseBackslash(ip) ==
    LET d == ip.data IN
    IF ip.pos + 1 >= Len(d) \/ ~isASCIIPunct(d[ip.pos + 2])
    THEN [ip EXCEPT !.pos = ip.pos + 1]
    ELSE LET ip1 == finalizeString(ip)
         IN resetString([ip1 EXCEPT
                !.children = Append(@, StringInline(<<d[ip.pos + 2]>>)),
                !.pos = ip.pos + 2])

\* The bytes 32..126 in their order.
asciiPrintable ==
    <<" ", "!", "\"", "#", "$", "%", "&", "'", "(", ")", "*", "+", ",", "-",
      ".", "/", "0", "1", "2", "3", "4", "5", "6", "7", "8", "9", ":", ";",
      "<", "=", ">", "?", "@", "A", "B", "C", "D", "E", "F", "G", "H", "I",
      "J", "K", "L", "M", "N", "O", "P", "Q", "R", "S", "T", "U", "V", "W",
      "X", "Y", "Z", "[", "\\", "]", "^", "_", backtick, "a", "b", "c", "d",
      "e", "f", "g", "h", "i", "j", "k", "l", "m", "n", "o", "p", "q", "r",
      "s", "t", "u", "v", "w", "x", "y", "z", "{", "|", "}", "~">>

hexDigits ==
    <<"0", "1", "2", "3", "4", "5", "6", "7", "8", "9", "a", "b", "c", "d", "e", "f">>

hexDigitsUpper == <<"A", "B", "C", "D", "E", "F">>

\* The byte with the value n, as the model writes bytes: the character
\* itself where the model has it, and "x" with two hexadecimal digits
\* otherwise.
Byte(n) ==
    CASE n \in 32..126 -> asciiPrintable[n - 31]
      [] n = 9 -> "\t"
      [] n = 10 -> "\n"
      [] n = 12 -> "\f"
      [] n = 13 -> "\r"
      [] OTHER -> "x" \o hexDigits[(n \div 16) + 1] \o hexDigits[(n % 16) + 1]

\* utf8.EncodeRune for a valid code point r.
EncodeRune(r) ==
    CASE r < 128 -> <<Byte(r)>>
      [] r >= 128 /\ r < 2048 -> <<Byte(192 + (r \div 64)), Byte(128 + (r % 64))>>
      [] r >= 2048 /\ r < 65536 ->
             <<Byte(224 + (r \div 4096)), Byte(128 + ((r \div 64) % 64)), Byte(128 + (r % 64))>>
      [] OTHER ->
             <<Byte(240 + (r \div 262144)), Byte(128 + ((r \div 4096) % 64)),
               Byte(128 + ((r \div 64) % 64)), Byte(128 + (r % 64))>>

\* utf8.RuneError
RuneError == 65533

\* The value of the digit c in the base, or -1.
digitValue(c, base) ==
    LET lower == {k \in 1..base : hexDigits[k] = c}
        upper == {k \in 11..base : hexDigitsUpper[k - 10] = c}
    IN IF lower # {} THEN (CHOOSE k \in lower : TRUE) - 1
       ELSE IF upper # {} THEN (CHOOSE k \in upper : TRUE) - 1
       ELSE -1

\* The loop of strconv.ParseUint(s, base, 32) from the value n on; n is
\* [hi, lo] with the value hi * 2^16 + lo.  err is set by a byte that is no
\* digit and by a value above 2^32 - 1.
RECURSIVE parseDigits(_, _, _)
parseDigits(s, base, n) ==
    IF s = <<>> THEN [err |-> FALSE, hi |-> n.hi, lo |-> n.lo]
    ELSE IF digitValue(Head(s), base) < 0 THEN [err |-> TRUE, hi |-> 0, lo |-> 0]
    ELSE IF (n.hi * base) + ((n.lo * base + digitValue(Head(s), base)) \div 65536) >= 65536
    THEN [err |-> TRUE, hi |-> 65535, lo |-> 65535]
    ELSE parseDigits(Tail(s), base,
                     [hi |-> (n.hi * base) + ((n.lo * base + digitValue(Head(s), base)) \div 65536),
                      lo |-> (n.lo * base + digitValue(Head(s), base)) % 65536])

\* strconv.ParseUint(s, base, 32) for the base 10 or 16.
ParseUint(s, base) ==
    IF s = <<>> THEN [err |-> TRUE, hi |-> 0, lo |-> 0]
    ELSE parseDigits(s, base, [hi |-> 0, lo |-> 0])

\* fmt.Sprintf("%c", codepoint): the UTF-8 encoding, and that of U+FFFD for
\* a value above U+10FFFF or a surrogate.
sprintfC(n) ==
    IF n.hi > 16 \/ (n.hi = 0 /\ n.lo >= 55296 /\ n.lo <= 57343)
    THEN EncodeRune(RuneError)
    ELSE EncodeRune(n.hi * 65536 + n.lo)

\* htmlEntities[entity]: the empty string for a name that is no HTML5
\* entity name; the names of the model's texts are none.
htmlEntities(entity) == <<>>

\* The code points that inlineParser.parse finds for the entity, the
\* bytes between "&" and ";".
decodeEntity(entity) ==
    IF Len(entity) = 0 THEN <<>>
    ELSE IF entity[1] # "#" THEN htmlEntities(entity)
    ELSE IF Len(entity) <= 1 THEN <<>>
    ELSE IF entity[2] \in {"x", "X"}
    THEN IF ParseUint(From(entity, 2), 16).err THEN <<>>
         ELSE sprintfC(ParseUint(From(entity, 2), 16))
    ELSE IF ParseUint(From(entity, 1), 10).err THEN <<>>
         ELSE sprintfC(ParseUint(From(entity, 1), 10))

\* bytes.IndexByte(s[from:], c) + from, or -1.
RECURSIVE IndexByteFrom(_, _, _)
IndexByteFrom(s, from, c) ==
    IF from >= Len(s) THEN -1
    ELSE IF s[from + 1] = c THEN from
    ELSE IndexByteFrom(s, from + 1, c)

\* What case '&' does once the semicolon is known.
parseEntityUpTo(ip, semicolon) ==
    IF semicolon < 0 \/ decodeEntity(Slice(ip.data, ip.pos + 1, semicolon)) = <<>>
    THEN [ip EXCEPT !.pos = ip.pos + 1]
    ELSE resetString([finalizeString(ip) EXCEPT
             !.children = Append(@, StringInline(
                              decodeEntity(Slice(ip.data, ip.pos + 1, semicolon)))),
             !.pos = semicolon + 1])

\* case '&' of inlineParser.parse: an entity.
parseEntity(ip) == parseEntityUpTo(ip, IndexByteFrom(ip.data, ip.pos + 1, ";"))

\* inlineParser.parse.  The bytes of the model's inputs reach the cases '\n',
\* '\\', '&' and default.
RECURSIVE inlineParse(_)
inlineParse(ip) ==
    IF ip.pos >= Len(ip.data) THEN finalizeString(ip)
    ELSE LET c == ip.data[ip.pos + 1] IN
         CASE c = "\n" -> inlineParse(parseLineBreak(ip))
           [] c = "\\" -> inlineParse(parseBackslash(ip))
           [] c = "&" -> inlineParse(parseEntity(ip))
           [] OTHER -> inlineParse([ip EXCEPT !.pos = ip.pos + 1])

\* parseInlines: the children of the multipleInline it returns.
parseInlines(d) ==
    inlineParse([data |-> TrimRightWhitespace(d), pos |-> 0, stringStart |-> 0,
                 children |-> <<>>]).children

\* processInlines, for the blocks from block b down: only a paragraph gets
\* inline content.
RECURSIVE processInlinesAll(_, _)
processInlines(ns, b) ==
    LET ns1 == IF ns[b].kind = "paragraph"
               THEN [ns EXCEPT ![b].inlineContent =
                        [nil |-> FALSE,
                         children |-> parseInlines(TrimRightSpaces(ns[b].content))]]
               ELSE ns
    IN processInlinesAll(ns1, ns1[b].children)

processInlinesAll(ns, bs) ==
    IF bs = <<>> THEN ns
    ELSE processInlinesAll(processInlines(ns, Head(bs)), Tail(bs))

-----------------------------------------------------------------------------
(* The HTML renderer.  A rendering is [html, panic]. *)

\* escapeMap without its entry for the quotation mark.
escapeMapNoQuote(c) ==
    CASE c = "&" -> <<"&", "a", "m", "p", ";">>
      [] c = "<" -> <<"&", "l", "t", ";">>
      [] c = ">" -> <<"&", "g", "t", ";">>
      [] OTHER -> <<c>>

escapeMap(c) ==
    CASE c = "\"" -> <<"&", "q", "u", "o", "t", ";">>
      [] c = "&" -> <<"&", "a", "m", "p", ";">>
      [] c = "<" -> <<"&", "l", "t", ";">>
      [] c = ">" -> <<"&", "g", "t", ";">>
      [] OTHER -> <<c>>

RECURSIVE writeEscaped(_)
writeEscaped(d) ==
    IF d = <<>> THEN <<>> ELSE escapeMap(Head(d)) \o writeEscaped(Tail(d))

Digit(n) == <<"1", "2", "3", "4", "5", "6">>[n]

Html(h) == [html |-> h, panic |-> FALSE]

Panicked == [html |-> <<>>, panic |-> TRUE]

\* Writes a, then b, unless a panicked first.
Then(a, b) == IF a.panic THEN a
              ELSE IF b.panic THEN [html |-> a.html \o b.html, panic |-> TRUE]
              ELSE Html(a.html \o b.html)

\* inlineToHTML of the children of a multipleInline.
RECURSIVE inlinesToHTML(_)
inlinesToHTML(is) ==
    IF is = <<>> THEN <<>>
    ELSE LET i == Head(is)
             h == CASE i.type = "stringInline" -> writeEscaped(i.content)
                    [] i.type = "softLineBreak" -> <<"\n">>
                    [] i.type = "hardLineBreak" -> <<"<", "b", "r", " ", "/", ">", "\n">>
                    [] i.type = "codeSpan" ->
                         <<"<", "c", "o", "d", "e", ">">> \o writeEscaped(i.content)
                         \o <<"<", "/", "c", "o", "d", "e", ">">>
         IN h \o inlinesToHTML(Tail(is))

\* inlineToHTML of a block's inlineContent: a nil Inline has no converter.
inlineToHTML(ic) == IF ic.nil THEN Panicked ELSE Html(inlinesToHTML(ic.children))

RECURSIVE blocksToHTML(_, _)
blockToHTML(ns, b) ==
    LET t == ns[b] IN
    CASE t.kind = "document" -> blocksToHTML(ns, t.children)
      [] t.kind = "horizontalRule" -> Html(<<"<", "h", "r", " ", "/", ">", "\n">>)
      [] t.kind = "atxHeader" ->
            Then(Html(<<"<", "h", Digit(t.level), ">">>),
                 Then(inlineToHTML(t.inlineContent),
                      Html(<<"<", "/", "h", Digit(t.level), ">", "\n">>)))
      [] t.kind = "indentedCodeBlock" ->
            Html(<<"<", "p", "r", "e", ">", "<", "c", "o", "d", "e", ">">>
                 \o writeEscaped(t.content)
                 \o <<"<", "/", "c", "o", "d", "e", ">", "<", "/", "p", "r", "e", ">", "\n">>)
      [] t.kind = "paragraph" ->
            Then(Html(<<"<", "p", ">">>),
                 Then(inlineToHTML(t.inlineContent),
                      Html(<<"<", "/", "p", ">", "\n">>)))
      [] t.kind = "blockQuote" ->
            Then(Html(<<"<", "b", "l", "o", "c", "k", "q", "u", "o", "t", "e", ">", "\n">>),
                 Then(blocksToHTML(ns, t.children),
                      Html(<<"<", "/", "b", "l", "o", "c", "k", "q", "u", "o", "t", "e",
                             ">", "\n">>)))

blocksToHTML(ns, bs) ==
    IF bs = <<>> THEN Html(<<>>)
    ELSE Then(blockToHTML(ns, Head(bs)), blocksToHTML(ns, Tail(bs)))


-----------------------------------------------------------------------------
(* The whole conversion as a function of the input, composed of the same   *)
(* steps the actions below take one at a time.                             *)

\* parseBlocks: the document alone, open.
newParser == [nodes |-> <<NewBlock("document", 0, <<>>)>>, openBlocks |-> <<1>>]

\* The phase 2 loop.
RECURSIVE openLoop(_, _)
openLoop(p, l) ==
    LET r == openStep(p, l)
    IN IF r.pc = "open" THEN openLoop(r.p, r.line) ELSE r

\* The body of the scanner loop of blockParser.parse for one token.
parseLine(p, token) ==
    LET m == matchOpenBlocks(p, Append(tabsToSpaces(token), "\n"))
        r == openLoop(m.p, m.line)
    IN IF r.pc = "append" THEN appendLine(r.p, r.line) ELSE r.p

\* blockParser.parse from scanner state s on.
RECURSIVE parseFrom(_, _, _)
parseFrom(d, s, p) ==
    LET r == Scan(d, s)
    IN IF r.ok THEN parseFrom(d, r.sc, parseLine(p, r.token))
       ELSE [p |-> p, err |-> ScannerErr(r.sc)]

\* ToHTMLBytes: the output, the error, and whether the renderer panicked.
ToHTMLBytes(d) ==
    LET r == parseFrom(d, newScanner, newParser)
        h == blockToHTML(processInlines(r.p.nodes, 1), 1)
    IN IF r.err # "nil"
       THEN [out |-> <<>>, err |-> r.err, panic |-> FALSE]
       ELSE [out |-> h.html, err |-> "nil", panic |-> h.panic]

-----------------------------------------------------------------------------
(* The parse tree of ast.go.  Nodes live in a heap; a *Node is an index    *)
(* into it and 0 is nil.  The body of a method is written down statement   *)
(* by statement and executed in that order on the heap, so that aliased    *)
(* pointers behave as they do in Go.  A panic is recorded in the heap and  *)
(* stops what follows.                                                     *)

emptyHeap == [nodes |-> <<>>, panic |-> ""]

\* A NodeContent value: its Go type and its Content (or Href) bytes.
NodeContent(type, bytes) == [type |-> type, bytes |-> bytes]

\* The nil interface value.
nilContent == NodeContent("nil", <<>>)

\* NewNode(content): the new node is the next index of the heap.
NewNode(h, content) ==
    IF h.panic # "" THEN h
    ELSE [h EXCEPT !.nodes = Append(@, [parent |-> 0, prev |-> 0, next |-> 0,
                                        firstChild |-> 0, lastChild |-> 0,
                                        content |-> content])]

\* n.f, read.
Get(h, n, f) == IF n = 0 THEN 0 ELSE h.nodes[n][f]

ContentOf(h, n) == IF n = 0 THEN nilContent ELSE h.nodes[n].content

\* The node keeps the content it has.
keepContent(h, n, c) == h

SetContent(h, n, c) ==
    IF h.panic # "" THEN h
    ELSE IF n = 0 THEN [h EXCEPT !.panic = "nil pointer dereference"]
    ELSE [h EXCEPT !.nodes[n].content = c]

\* The pointer an expression such as n.parent denotes: p, then the fields
\* followed from it; -1 if a nil pointer is followed.
RECURSIVE Follow(_, _, _)
Follow(h, p, fields) ==
    IF fields = <<>> THEN p
    ELSE IF p <= 0 THEN -1
    ELSE Follow(h, h.nodes[p][Head(fields)], Tail(fields))

\* The statements of the methods.  x and v are expressions: a variable of
\* the method ("nil" for nil) and the fields followed from it.
Assign(x, f, v) == [op |-> "assign", x |-> x, f |-> f, v |-> v]

IfNil(x, then, else) == [op |-> "ifNil", x |-> x, then |-> then, else |-> else]

Call(method, x) == [op |-> method, x |-> x]

\* The statements `body` in the environment env (the receiver and the
\* argument), on the heap h.
RECURSIVE Exec(_, _, _)
Exec(h, env, body) ==
    IF body = <<>> \/ h.panic # "" THEN h
    ELSE LET s == Head(body)
             x == Follow(h, env[Head(s.x)], Tail(s.x))
         IN Exec(CASE s.op = "ifNil" ->
                          IF x < 0 THEN [h EXCEPT !.panic = "nil pointer dereference"]
                          ELSE Exec(h, env, IF x = 0 THEN s.then ELSE s.else)
                   [] s.op # "ifNil" /\ x <= 0 ->
                          [h EXCEPT !.panic = "nil pointer dereference"]
                   [] s.op = "assertHasParent" /\ x > 0 ->
                          IF h.nodes[x].parent = 0
                          THEN [h EXCEPT !.panic = "child has no parent"] ELSE h
                   [] s.op = "assertHasNoParent" /\ x > 0 ->
                          IF h.nodes[x].parent # 0
                          THEN [h EXCEPT !.panic = "child already has a parent"] ELSE h
                   [] s.op = "assign" /\ x > 0 ->
                          IF Follow(h, env[Head(s.v)], Tail(s.v)) < 0
                          THEN [h EXCEPT !.panic = "nil pointer dereference"]
                          ELSE [h EXCEPT !.nodes[x][s.f] =
                                             Follow(h, env[Head(s.v)], Tail(s.v))],
                 env, Tail(body))

AppendChild(h, n, child) ==
    Exec(h, [n |-> n, child |-> child, nil |-> 0],
         <<Call("assertHasNoParent", <<"child">>),
           Assign(<<"child">>, "parent", <<"n">>),
           Assign(<<"child">>, "prev", <<"n", "lastChild">>),
           Assign(<<"child">>, "next", <<"nil">>),
           IfNil(<<"n", "lastChild">>, <<>>,
                 <<Assign(<<"n", "lastChild">>, "next", <<"child">>)>>),
           Assign(<<"n">>, "lastChild", <<"child">>),
           IfNil(<<"n", "firstChild">>,
                 <<Assign(<<"n">>, "firstChild", <<"child">>)>>, <<>>)>>)

InsertBefore(h, n, sibling) ==
    Exec(h, [n |-> n, sibling |-> sibling, nil |-> 0],
         <<Call("assertHasParent", <<"n">>),
           Call("assertHasNoParent", <<"sibling">>),
           IfNil(<<"n", "prev">>,
                 <<Assign(<<"n", "parent">>, "firstChild", <<"sibling">>)>>,
                 <<Assign(<<"n", "prev">>, "next", <<"sibling">>)>>),
           Assign(<<"sibling">>, "parent", <<"n", "parent">>),
           Assign(<<"sibling">>, "prev", <<"n", "prev">>),
           Assign(<<"sibling">>, "next", <<"n">>),
           Assign(<<"n">>, "prev", <<"sibling">>)>>)

InsertAfter(h, n, sibling) ==
    Exec(h, [n |-> n, sibling |-> sibling, nil |-> 0],
         <<Call("assertHasParent", <<"n">>),
           Call("assertHasNoParent", <<"sibling">>),
           IfNil(<<"n", "next">>,
                 <<Assign(<<"n", "parent">>, "lastChild", <<"sibling">>)>>,
                 <<Assign(<<"n", "next">>, "prev", <<"sibling">>)>>),
           Assign(<<"sibling">>, "parent", <<"n", "parent">>),
           Assign(<<"sibling">>, "prev", <<"n">>),
           Assign(<<"sibling">>, "next", <<"n", "next">>),
           Assign(<<"n">>, "next", <<"sibling">>)>>)

Remove(h, n) ==
    Exec(h, [n |-> n, nil |-> 0],
         <<Call("assertHasParent", <<"n">>),
           IfNil(<<"n", "prev">>,
                 <<Assign(<<"n", "parent">>, "firstChild", <<"n", "next">>)>>,
                 <<Assign(<<"n", "prev">>, "next", <<"n", "next">>)>>),
           IfNil(<<"n", "next">>,
                 <<Assign(<<"n", "parent">>, "lastChild", <<"n", "prev">>)>>,
                 <<Assign(<<"n", "next">>, "prev", <<"n", "prev">>)>>),
           Assign(<<"n">>, "parent", <<"nil">>),
           Assign(<<"n">>, "prev", <<"nil">>),
           Assign(<<"n">>, "next", <<"nil">>)>>)

\* PrependChild with the link written before the check.
PrependChildLinkFirst(h, n, child) ==
    Exec(h, [n |-> n, child |-> child, nil |-> 0],
         <<Assign(<<"child">>, "parent", <<"n">>),
           Call("assertHasNoParent", <<"child">>),
           Assign(<<"child">>, "prev", <<"nil">>),
           Assign(<<"child">>, "next", <<"n", "firstChild">>),
           IfNil(<<"n", "firstChild">>, <<>>,
                 <<Assign(<<"n", "firstChild">>, "prev", <<"child">>)>>),
           Assign(<<"n">>, "firstChild", <<"child">>),
           IfNil(<<"n", "lastChild">>,
                 <<Assign(<<"n">>, "lastChild", <<"child">>)>>, <<>>)>>)

PrependChild(h, n, child) ==
    Exec(h, [n |-> n, child |-> child, nil |-> 0],
         <<Call("assertHasNoParent", <<"child">>),
           Assign(<<"child">>, "parent", <<"n">>),
           Assign(<<"child">>, "prev", <<"nil">>),
           Assign(<<"child">>, "next", <<"n", "firstChild">>),
           IfNil(<<"n", "firstChild">>, <<>>,
                 <<Assign(<<"n", "firstChild">>, "prev", <<"child">>)>>),
           Assign(<<"n">>, "firstChild", <<"child">>),
           IfNil(<<"n", "lastChild">>,
                 <<Assign(<<"n">>, "lastChild", <<"child">>)>>, <<>>)>>)

(* The repository holds a second text of the node type, with Replace and   *)
(* with its own InsertBefore and InsertAfter; its PrependChild,            *)
(* AppendChild and Remove are those above.                                 *)

InsertBefore005(h, n, sibling) ==
    Exec(h, [n |-> n, sibling |-> sibling, nil |-> 0],
         <<Call("assertHasParent", <<"n">>),
           Call("assertHasNoParent", <<"sibling">>),
           IfNil(<<"n", "prev">>,
                 <<Assign(<<"n", "parent">>, "firstChild", <<"sibling">>)>>,
                 <<Assign(<<"n", "prev">>, "next", <<"sibling">>)>>),
           Assign(<<"sibling">>, "prev", <<"n", "prev">>),
           Assign(<<"sibling">>, "next", <<"n">>),
           Assign(<<"n">>, "prev", <<"sibling">>)>>)

InsertAfter005(h, n, sibling) ==
    Exec(h, [n |-> n, sibling |-> sibling, nil |-> 0],
         <<Call("assertHasParent", <<"n">>),
           Call("assertHasNoParent", <<"sibling">>),
           IfNil(<<"n", "next">>,
                 <<Assign(<<"n", "parent">>, "lastChild", <<"sibling">>)>>,
                 <<Assign(<<"n", "next">>, "prev", <<"sibling">>)>>),
           Assign(<<"sibling">>, "prev", <<"n">>),
           Assign(<<"sibling">>, "next", <<"n", "next">>),
           Assign(<<"n">>, "next", <<"sibling">>)>>)

Replace(h, n, replacement) ==
    Exec(h, [n |-> n, replacement |-> replacement, nil |-> 0],
         <<Call("assertHasParent", <<"n">>),
           Call("assertHasNoParent", <<"replacement">>),
           IfNil(<<"n", "prev">>,
                 <<Assign(<<"n", "parent">>, "firstChild", <<"replacement">>)>>,
                 <<Assign(<<"n", "prev">>, "next", <<"replacement">>)>>),
           IfNil(<<"n", "next">>,
                 <<Assign(<<"n", "parent">>, "lastChild", <<"replacement">>)>>,
                 <<Assign(<<"n", "next">>, "prev", <<"replacement">>)>>),
           Assign(<<"replacement">>, "parent", <<"n", "parent">>),
           Assign(<<"replacement">>, "prev", <<"n", "next">>),
           Assign(<<"replacement">>, "next", <<"n", "next">>),
           Assign(<<"n">>, "parent", <<"nil">>),
           Assign(<<"n">>, "prev", <<"nil">>),
           Assign(<<"n">>, "next", <<"nil">>)>>)

-----------------------------------------------------------------------------
(* The inline passes of inline.go on the parse tree.  Indices are Go's     *)
(* 0-based ones; At(s, i) is Go's s[i].                                    *)

At(s, i) == s[i + 1]

asciiLower ==
    <<"a", "b", "c", "d", "e", "f", "g", "h", "i", "j", "k", "l", "m",
      "n", "o", "p", "q", "r", "s", "t", "u", "v", "w", "x", "y", "z">>

asciiUpper ==
    <<"A", "B", "C", "D", "E", "F", "G", "H", "I", "J", "K", "L", "M",
      "N", "O", "P", "Q", "R", "S", "T", "U", "V", "W", "X", "Y", "Z">>

asciiLetters == {asciiLower[k] : k \in 1..26} \cup {asciiUpper[k] : k \in 1..26}

asciiDigits == {"0", "1", "2", "3", "4", "5", "6", "7", "8", "9"}

isASCIIAlNum(c) == c \in asciiLetters \cup asciiDigits

asciiSpace == {" ", "\n", "\r", "\t", "\f"}

isASCIISpace(c) == c \in asciiSpace

RECURSIVE trimWhitespaceRight(_)
trimWhitespaceRight(d) ==
    IF d # <<>> /\ isASCIISpace(d[Len(d)])
    THEN trimWhitespaceRight(SubSeq(d, 1, Len(d) - 1))
    ELSE d

\* The index of the first byte at or after i that is not in S, or len(s).
RECURSIVE SkipRun(_, _, _)
SkipRun(s, i, S) ==
    IF i < Len(s) /\ At(s, i) \in S THEN SkipRun(s, i + 1, S) ELSE i

\* regexp's FindAllIndex, given for every start index i the end of the match
\* that starts there (ends[i + 1], -1 for none): the leftmost matches, none
\* overlapping, as pairs <<start, end>>.
RECURSIVE FindAllIndex(_, _)
FindAllIndex(ends, i) ==
    IF i >= Len(ends) THEN <<>>
    ELSE IF At(ends, i) < 0 THEN FindAllIndex(ends, i + 1)
    ELSE <<(<<i, At(ends, i)>>)>> \o FindAllIndex(ends, At(ends, i))

\* A name at i: one byte of `first`, then bytes of `rest`; its end, or -1.
nameEnd(s, i, first, rest) ==
    IF i < Len(s) /\ At(s, i) \in first THEN SkipRun(s, i + 1, rest) ELSE -1

\* `(attribute)*\s*/?>` of rawHTMLRe at i, for attributes without a value
\* specification: the end of the match, or -1.
RECURSIVE attributesEnd(_, _)
attributesEnd(s, i) ==
    LET j == SkipRun(s, i, asciiSpace)
        k == IF j > i
             THEN nameEnd(s, j, asciiLetters \cup {"_", ":"},
                          asciiLetters \cup asciiDigits \cup {"_", ".", ":", "-"})
             ELSE -1
        e == IF j < Len(s) /\ At(s, j) = "/" THEN j + 1 ELSE j
    IN IF k >= 0 THEN attributesEnd(s, k)
       ELSE IF e < Len(s) /\ At(s, e) = ">" THEN e + 1
       ELSE -1

\* rawHTMLRe anchored at i: an open tag or a closing tag.  The other
\* alternatives need "<!" or "<?", and attribute values need "=": the texts
\* of this model hold no "!", "?" or "=" inside a tag.
rawHTMLEnd(s, i) ==
    IF At(s, i) # "<" THEN -1
    ELSE IF i + 1 < Len(s) /\ At(s, i + 1) = "/"
    THEN LET k == nameEnd(s, i + 2, asciiLetters, asciiLetters \cup asciiDigits)
             e == SkipRun(s, k, asciiSpace)
         IN IF k >= 0 /\ e < Len(s) /\ At(s, e) = ">" THEN e + 1 ELSE -1
    ELSE LET k == nameEnd(s, i + 1, asciiLetters, asciiLetters \cup asciiDigits)
         IN IF k >= 0 THEN attributesEnd(s, k) ELSE -1

\* The schemes of the variable `scheme`.
scheme ==
    {"coap", "doi", "javascript", "aaa", "aaas", "about", "acap", "cap", "cid",
     "crid", "data", "dav", "dict", "dns", "file", "ftp", "geo", "go", "gopher",
     "h323", "http", "https", "iax", "icap", "im", "imap", "info", "ipp", "iris",
     "iris.beep", "iris.xpc", "iris.xpcs", "iris.lwz", "ldap", "mailto", "mid",
     "msrp", "msrps", "mtqp", "mupdate", "news", "nfs", "ni", "nih", "nntp",
     "opaquelocktoken", "pop", "pres", "rtsp", "service", "session", "shttp",
     "sieve", "sip", "sips", "sms", "snmp", "soap.beep", "soap.beeps", "tag",
     "tel", "telnet", "tftp", "thismessage", "tn3270", "tip", "tv", "urn",
     "vemmi", "ws", "wss", "xcon", "xcon-userid", "xmlrpc.beep", "xmlrpc.beeps",
     "xmpp", "z39.50r", "z39.50s", "adiumxtra", "afp", "afs", "aim", "apt",
     "attachment", "aw", "beshare", "bitcoin", "bolo", "callto", "chrome",
     "chrome-extension", "com-eventbrite-attendee", "content", "cvs",
     "dlna-playsingle", "dlna-playcontainer", "dtn", "dvb", "ed2k", "facetime",
     "feed", "finger", "fish", "gg", "git", "gizmoproject", "gtalk", "hcp",
     "icon", "ipn", "irc", "irc6", "ircs", "itms", "jar", "jms", "keyparc",
     "lastfm", "ldaps", "magnet", "maps", "market", "message", "mms", "ms-help",
     "msnim", "mumble", "mvn", "notes", "oid", "palm", "paparazzi", "platform",
     "proxy", "psyc", "query", "res", "resource", "rmi", "rsync", "rtmp",
     "secondlife", "sftp", "sgn", "skype", "smb", "soldat", "spotify", "ssh",
     "steam", "svn", "teamspeak", "things", "udp", "unreal", "ut2004",
     "ventrilo", "view-source", "webcal", "wtai", "wyciwyg", "xfire", "xri",
     "ymsgr"}

\* The bytes of s as one lower-case string ((?i:...) folds the case).
RECURSIVE lowerString(_)
lowerString(s) ==
    IF s = <<>> THEN ""
    ELSE LET c == Head(s)
             l == IF \E k \in 1..26 : asciiUpper[k] = c
                  THEN asciiLower[CHOOSE k \in 1..26 : asciiUpper[k] = c]
                  ELSE c
         IN l \o lowerString(Tail(s))

\* absoluteURI, anchored at both ends of s.
isAbsoluteURI(s) ==
    \E k \in 1..Len(s) :
        /\ s[k] = ":"
        /\ \A j \in 1..(k - 1) : s[j] # ":"
        /\ lowerString(SubSeq(s, 1, k - 1)) \in scheme
        /\ \A j \in (k + 1)..Len(s) : s[j] \notin asciiSpace \cup {"<", ">"}

\* emailAddress, anchored at both ends of s.
isEmailAddress(s) ==
    \E k \in 2..(Len(s) - 1) :
        LET d == SubSeq(s, k + 1, Len(s)) IN
        /\ s[k] = "@"
        /\ \A j \in 1..(k - 1) :
               \/ isASCIIAlNum(s[j])
               \/ s[j] \in {".", "!", "#", "$", "%", "&", "'", "*", "+", "/", "=", "?",
                            "^", "_", backtick, "{", "|", "}", "~", "-"}
        /\ \A j \in 1..Len(d) : isASCIIAlNum(d[j]) \/ d[j] \in {"-", "."}
        /\ isASCIIAlNum(d[1]) /\ isASCIIAlNum(d[Len(d)])
        /\ \A j \in 1..Len(d) :
               d[j] = "." => isASCIIAlNum(d[j - 1]) /\ isASCIIAlNum(d[j + 1])
        /\ \A j \in 1..(Len(d) - 63) : \E l \in j..(j + 63) : d[l] = "."

\* autolinkRe anchored at i: "<", a URI or an address, and the first ">".
autolinkEnd(s, i) ==
    IF At(s, i) # "<" THEN -1
    ELSE LET e == SkipRun(s, i + 1, {s[k] : k \in 1..Len(s)} \ {">"})
             inner == Slice(s, i + 1, e)
         IN IF e < Len(s) /\ (isAbsoluteURI(inner) \/ isEmailAddress(inner))
            THEN e + 1 ELSE -1

\* hardLineBreakRe anchored at i.
hardLineBreakEnd(s, i) ==
    LET j == SkipRun(s, i, {" "})
    IN IF At(s, i) = "\\" /\ i + 1 < Len(s) /\ At(s, i + 1) = "\n"
       THEN SkipRun(s, i + 2, {" "})
       ELSE IF j - i >= 2 /\ j < Len(s) /\ At(s, j) = "\n"
       THEN SkipRun(s, j + 1, {" "})
       ELSE -1

\* softLineBreakRe anchored at i.
softLineBreakEnd(s, i) ==
    LET j == SkipRun(s, i, {" "})
    IN IF j < Len(s) /\ At(s, j) = "\n" THEN SkipRun(s, j + 1, {" "}) ELSE -1

\* The matches of one of the expressions in s.
Matches(s, re) ==
    FindAllIndex([k \in 1..Len(s) |->
                     CASE re = "rawHTML" -> rawHTMLEnd(s, k - 1)
                       [] re = "autolink" -> autolinkEnd(s, k - 1)
                       [] re = "hardLineBreak" -> hardLineBreakEnd(s, k - 1)
                       [] re = "softLineBreak" -> softLineBreakEnd(s, k - 1)], 0)

Text(bytes) == NodeContent("Text", bytes)

\* n.AppendChild(NewNode(content))
appendNew(h, n, content) == AppendChild(NewNode(h, content), n, Len(h.nodes) + 1)

\* The Link node of an autolink with its LiteralText child, appended to n.
appendLink(h, n, inner) ==
    AppendChild(appendNew(NewNode(h, NodeContent("Link",
                                         IF isAbsoluteURI(inner) THEN inner
                                         ELSE <<"m", "a", "i", "l", "t", "o", ":">> \o inner)),
                          Len(h.nodes) + 1, NodeContent("LiteralText", inner)),
                n, Len(h.nodes) + 1)

\* The node appended for the match m of the expression re.
appendMatch(h, n, text, m, re) ==
    CASE re = "rawHTML" -> appendNew(h, n, NodeContent("RawHTML", Slice(text, m[1], m[2])))
      [] re = "hardLineBreak" -> appendNew(h, n, NodeContent("HardLineBreak", <<>>))
      [] re = "autolink" -> appendLink(h, n, Slice(text, m[1] + 1, m[2] - 1))

\* The loop and the last statement that processRawHTML, processAutolinks
\* and processHardLineBreaks share: for every match the text before it and
\* the node of the match, then the text after the last match.  A match
\* after a backslash is passed over, except for line breaks.
RECURSIVE appendMatches(_, _, _, _, _, _)
appendMatches(h, n, text, m, textStart, re) ==
    IF m = <<>> THEN appendNew(h, n, Text(From(text, textStart)))
    ELSE IF re # "hardLineBreak" /\ Head(m)[1] > 0 /\ At(text, Head(m)[1] - 1) = "\\"
    THEN appendMatches(h, n, text, Tail(m), textStart, re)
    ELSE appendMatches(appendMatch(appendNew(h, n, Text(Slice(text, textStart, Head(m)[1]))),
                                   n, text, Head(m), re),
                       n, text, Tail(m), Head(m)[2], re)

splitMatches(h, n, text, m, re) ==
    IF m = <<>> THEN h
    ELSE appendMatches(SetContent(h, n, nilContent), n, text, m, 0, re)

processRawHTML(h, n, text) == splitMatches(h, n, text, Matches(text, "rawHTML"), "rawHTML")

processAutolinks(h, n, text) ==
    splitMatches(h, n, text, Matches(text, "autolink"), "autolink")

processHardLineBreaks(h, n, text) ==
    splitMatches(h, n, text, Matches(text, "hardLineBreak"), "hardLineBreak")

\* ReplaceAll(text, "\n") for the matches m, from index `from` on.
RECURSIVE replaceAll(_, _, _)
replaceAll(text, m, from) ==
    IF m = <<>> THEN From(text, from)
    ELSE Slice(text, from, Head(m)[1]) \o <<"\n">> \o replaceAll(text, Tail(m), Head(m)[2])

processSoftLineBreaks(h, n, text) ==
    SetContent(h, n, Text(replaceAll(text, Matches(text, "softLineBreak"), 0)))

\* bytes.Trim(s, cutset)
RECURSIVE Trim(_, _)
Trim(s, cutset) ==
    IF s # <<>> /\ Head(s) \in cutset THEN Trim(Tail(s), cutset)
    ELSE IF s # <<>> /\ s[Len(s)] \in cutset THEN Trim(SubSeq(s, 1, Len(s) - 1), cutset)
    ELSE s

\* A collapseSpace that leaves the slice as it is.
keepSpace(d) == d

RECURSIVE collapseFrom(_, _)
collapseFrom(d, prevWasSpace) ==
    IF d = <<>> THEN <<>>
    ELSE IF Head(d) \in {" ", "\n"}
    THEN (IF prevWasSpace THEN <<>> ELSE <<" ">>) \o collapseFrom(Tail(d), TRUE)
    ELSE <<Head(d)>> \o collapseFrom(Tail(d), FALSE)

collapseSpace(d) == collapseFrom(d, FALSE)

\* The delimiters stay in n: it keeps text[:startOfSecond].
splitTextNodeKeepDelims(h, n, endOfFirst, startOfSecond) ==
    IF h.panic # "" THEN h
    ELSE IF ContentOf(h, n).type # "Text"
    THEN [h EXCEPT !.panic = "interface conversion"]
    ELSE IF endOfFirst > Len(ContentOf(h, n).bytes)
            \/ startOfSecond > Len(ContentOf(h, n).bytes)
    THEN [h EXCEPT !.panic = "slice bounds out of range"]
    ELSE InsertAfter(NewNode(SetContent(h, n, Text(Slice(ContentOf(h, n).bytes, 0,
                                                          startOfSecond))),
                             Text(From(ContentOf(h, n).bytes, startOfSecond))),
                     n, Len(h.nodes) + 1)

\* splitTextNode: n keeps text[:endOfFirst]; the node returned, the next
\* index of the heap, holds text[startOfSecond:] and follows n.
splitTextNode(h, n, endOfFirst, startOfSecond) ==
    IF h.panic # "" THEN h
    ELSE IF ContentOf(h, n).type # "Text"
    THEN [h EXCEPT !.panic = "interface conversion"]
    ELSE IF endOfFirst > Len(ContentOf(h, n).bytes)
            \/ startOfSecond > Len(ContentOf(h, n).bytes)
    THEN [h EXCEPT !.panic = "slice bounds out of range"]
    ELSE InsertAfter(NewNode(SetContent(h, n, Text(Slice(ContentOf(h, n).bytes, 0,
                                                          endOfFirst))),
                             Text(From(ContentOf(h, n).bytes, startOfSecond))),
                     n, Len(h.nodes) + 1)

\* The inner loop of processCodeSpans from index i on; byLength is
\* backtickStringsByLength.  It ends at the first backtick string whose
\* length has been seen before, or at the end of the text.
RECURSIVE backtickScan(_, _, _)
backtickScan(text, i, byLength) ==
    IF i >= Len(text) THEN [found |-> FALSE, opener |-> 0, i |-> i, numBackticks |-> 0]
    ELSE IF At(text, i) # backtick THEN backtickScan(text, i + 1, byLength)
    ELSE IF i > 0 /\ At(text, i - 1) = "\\" THEN backtickScan(text, i + 1, byLength)
    ELSE IF (SkipRun(text, i, {backtick}) - i) \in DOMAIN byLength
    THEN [found |-> TRUE, opener |-> byLength[SkipRun(text, i, {backtick}) - i],
          i |-> SkipRun(text, i, {backtick}),
          numBackticks |-> SkipRun(text, i, {backtick}) - i]
    ELSE backtickScan(text, SkipRun(text, i, {backtick}) + 1,
                      [k \in DOMAIN byLength \cup {SkipRun(text, i, {backtick}) - i} |->
                          IF k \in DOMAIN byLength THEN byLength[k] ELSE i])

\* The statements of processCodeSpans for a matching backtick string: s is
\* what the scan found, textNode the node that holds the text.
extractCodeSpan(h, textNode, text, s) ==
    IF ~s.found THEN h
    ELSE InsertBefore(
             NewNode(splitTextNode(h, textNode, s.opener, s.i),
                     NodeContent("CodeSpan",
                         collapseSpace(Trim(Slice(text, s.opener + s.numBackticks,
                                                  s.i - s.numBackticks), {" ", "\n"})))),
             Len(h.nodes) + 1, Len(h.nodes) + 2)

processCodeSpans(h, n, text) ==
    extractCodeSpan(SetContent(appendNew(h, n, Text(text)), n, nilContent),
                    Len(h.nodes) + 1, text, backtickScan(text, 0, <<>>))

\* The loop of processBackslashEscapes from index i on.
RECURSIVE escapesFrom(_, _, _, _, _)
\* The loop goes on in the node n that the split has returned.
escapesAfterSplit(h, n) == escapesFrom(h, n, ContentOf(h, n).bytes, 0, TRUE)
\* The loop goes on after the first split has been prepared.
escapesInFirstChild(h, n, text, i) ==
    escapesFrom(h, Get(h, n, "firstChild"), text, i, TRUE)
escapesFrom(h, n, text, i, doneAnySplits) ==
    IF h.panic # "" \/ i >= Len(text) - 1 THEN h
    ELSE IF ~(At(text, i) = "\\" /\ isASCIIPunct(At(text, i + 1)))
    THEN escapesFrom(h, n, text, i + 1, doneAnySplits)
    ELSE IF ~doneAnySplits
    THEN escapesInFirstChild(SetContent(appendNew(h, n, Text(text)), n, nilContent),
                             n, text, i)
    ELSE escapesAfterSplit(
             InsertBefore(NewNode(splitTextNode(h, n, i, i + 2),
                                  NodeContent("BackslashEscape", Slice(text, i + 1, i + 2))),
                          Len(h.nodes) + 1, Len(h.nodes) + 2),
             Len(h.nodes) + 1)

processBackslashEscapes(h, n, text) == escapesFrom(h, n, text, 0, FALSE)

\* forTextNodes(f)(n) for the pass named f.
forTextNodes(h, n, f) ==
    IF h.panic # "" \/ ContentOf(h, n).type # "Text" THEN h
    ELSE CASE f = "processRawHTML" -> processRawHTML(h, n, ContentOf(h, n).bytes)
           [] f = "processCodeSpans" -> processCodeSpans(h, n, ContentOf(h, n).bytes)
           [] f = "processAutolinks" -> processAutolinks(h, n, ContentOf(h, n).bytes)
           [] f = "processBackslashEscapes" ->
                  processBackslashEscapes(h, n, ContentOf(h, n).bytes)
           [] f = "processHardLineBreaks" ->
                  processHardLineBreaks(h, n, ContentOf(h, n).bytes)
           [] f = "processSoftLineBreaks" ->
                  processSoftLineBreaks(h, n, ContentOf(h, n).bytes)

\* applyRecursively(n, forTextNodes(f)): the children from `child` on, each
\* with its subtree, and (applyRecursively) then the node itself.
RECURSIVE applyFrom(_, _, _)
applyRecursively(h, n, f) == forTextNodes(applyFrom(h, Get(h, n, "firstChild"), f), n, f)
\* The loop goes on with child.Next(), read after the call for child.
applyNext(h, child, f) == applyFrom(h, Get(h, child, "next"), f)
applyFrom(h, child, f) ==
    IF child = 0 THEN h ELSE applyNext(applyRecursively(h, child, f), child, f)

-----------------------------------------------------------------------------
(* processEmphasis of inline.go, one delimiter string at a time.  The      *)
(* position of the loops is a record e: the heap h, the loop variables     *)
(* child and i, and the stack.                                             *)

\* The index of the first "*" or "_" at or after i, or len(text).
nextDelims(text, i) ==
    SkipRun(text, i, {text[k] : k \in 1..Len(text)} \ {"*", "_"})

\* "See if this delimiter string can close emphasis."
canClose(text, delimsStart, i, c) ==
    /\ delimsStart = 0 \/ ~isASCIISpace(At(text, delimsStart - 1))
    /\ c # "_" \/ i = Len(text) \/ ~isASCIIAlNum(At(text, i))

\* Open whatever the byte before a "_" is.
canOpenInsideWord(text, delimsStart, i, c) == i = Len(text) \/ ~isASCIISpace(At(text, i))

\* "See if this delimiter string can open emphasis."
canOpen(text, delimsStart, i, c) ==
    /\ i = Len(text) \/ ~isASCIISpace(At(text, i))
    /\ c # "_" \/ delimsStart = 0 \/ ~isASCIIAlNum(At(text, delimsStart - 1))

\* The walk down the stack: the index j of the topmost entry with the
\* delimiter c, counted from 1, or 0.
RECURSIVE findOpener(_, _)
findOpener(stack, c) ==
    IF stack = <<>> THEN 0
    ELSE IF stack[Len(stack)].delimChar = c THEN Len(stack)
    ELSE findOpener(SubSeq(stack, 1, Len(stack) - 1), c)

\* Two delimiters of each side also when both strings have three.
consumeDelimsStrongFirst(numDelims, entryNumDelims) ==
    IF numDelims >= 2 /\ entryNumDelims >= 2 THEN 2 ELSE 1

consumeDelims(numDelims, entryNumDelims) ==
    IF numDelims = 3 /\ entryNumDelims = 3 THEN 1
    ELSE IF numDelims >= 2 /\ entryNumDelims >= 2 THEN 2
    ELSE 1

\* The siblings stay where they are.
leaveSiblings(h, emphasisNode, nodeAfterCloser) == h

\* The loop that shoves the siblings after emphasisNode underneath it.
RECURSIVE adoptSiblings(_, _, _)
adoptSiblings(h, emphasisNode, nodeAfterCloser) ==
    IF h.panic # "" \/ Get(h, emphasisNode, "next") = nodeAfterCloser THEN h
    ELSE adoptSiblings(AppendChild(Remove(h, Get(h, emphasisNode, "next")), emphasisNode,
                                   Get(h, emphasisNode, "next")),
                       emphasisNode, nodeAfterCloser)

\* The end of a match: on with the sibling after emphasisNode, the stack
\* cut down to below the entry j, and the entry back on it if it has
\* delimiters left.
afterClose(h, emphasisNode, stack, j, k) ==
    [h |-> h,
     child |-> Get(h, emphasisNode, "next"),
     i |-> 0,
     stack |-> SubSeq(stack, 1, j - 1) \o
               (IF stack[j].numDelims - k > 0
                THEN <<[stack[j] EXCEPT !.numDelims = @ - k]>> ELSE <<>>)]

\* The delimiter string at delimsStart of child closes the entry stack[j]
\* and k delimiters of each are consumed.  The three nodes made are the
\* next three of the heap: nodeAfterCloser, the rest of the opener's node,
\* emphasisNode.
closeEmphasis(e, delimsStart, j, k) ==
    afterClose(
        adoptSiblings(
            InsertAfter(
                NewNode(splitTextNode(
                            splitTextNode(e.h, e.child, delimsStart, delimsStart + k),
                            e.stack[j].textNode,
                            e.stack[j].delimsStart + e.stack[j].numDelims - k,
                            e.stack[j].delimsStart + e.stack[j].numDelims),
                        NodeContent(IF k = 1 THEN "Emphasis" ELSE "StrongEmphasis", <<>>)),
                e.stack[j].textNode, Len(e.h.nodes) + 3),
            Len(e.h.nodes) + 3, Len(e.h.nodes) + 1),
        Len(e.h.nodes) + 3, e.stack, j, k)

\* The delimiter string the loops meet next in child: its character c, its
\* start, the index i after it; none if the child is no Text node or
\* holds no further delimiter.
nextString(h, child, from) ==
    IF ContentOf(h, child).type # "Text"
       \/ nextDelims(ContentOf(h, child).bytes, from) >= Len(ContentOf(h, child).bytes)
    THEN [none |-> TRUE, text |-> <<>>, c |-> "", delimsStart |-> 0, i |-> 0]
    ELSE [none |-> FALSE,
          text |-> ContentOf(h, child).bytes,
          c |-> At(ContentOf(h, child).bytes, nextDelims(ContentOf(h, child).bytes, from)),
          delimsStart |-> nextDelims(ContentOf(h, child).bytes, from),
          i |-> SkipRun(ContentOf(h, child).bytes,
                        nextDelims(ContentOf(h, child).bytes, from),
                        {At(ContentOf(h, child).bytes,
                            nextDelims(ContentOf(h, child).bytes, from))})]

\* What the loops do with the string s: go to the next child, pass over a
\* string of more than three delimiters, close, open, or pass over it.
branchOf(s, stack) ==
    IF s.none THEN "nextChild"
    ELSE IF s.i - s.delimsStart > 3 THEN "ignore"
    ELSE IF canClose(s.text, s.delimsStart, s.i, s.c) /\ findOpener(stack, s.c) > 0
    THEN "close"
    ELSE IF canOpen(s.text, s.delimsStart, s.i, s.c) THEN "open"
    ELSE "pass"

emphasisBranch(e) == branchOf(nextString(e.h, e.child, e.i), e.stack)

\* One round of the loops for the string s with the branch b.
stepOf(e, s, b) ==
    CASE b = "nextChild" -> [e EXCEPT !.child = Get(e.h, e.child, "next"), !.i = 0]
      [] b = "close" ->
             closeEmphasis(e, s.delimsStart, findOpener(e.stack, s.c),
                           consumeDelims(s.i - s.delimsStart,
                                         e.stack[findOpener(e.stack, s.c)].numDelims))
      [] b = "open" ->
             [e EXCEPT !.i = s.i,
                       !.stack = Append(@, [delimChar |-> s.c,
                                            delimsStart |-> s.delimsStart,
                                            numDelims |-> s.i - s.delimsStart,
                                            textNode |-> e.child])]
      [] b \in {"ignore", "pass"} -> [e EXCEPT !.i = s.i]

\* One round of the loops of processEmphasis, up to and including the
\* next delimiter string of the child.
emphasisStep(e) == stepOf(e, nextString(e.h, e.child, e.i), emphasisBranch(e))

RECURSIVE emphasisFrom(_)
emphasisFrom(e) ==
    IF e.child = 0 \/ e.h.panic # "" THEN e.h ELSE emphasisFrom(emphasisStep(e))

\* The position at the head of processEmphasis(n).
emphasisStart(h, n) ==
    [h |-> h, child |-> Get(h, n, "firstChild"), i |-> 0, stack |-> <<>>]

processEmphasis(h, n) == emphasisFrom(emphasisStart(h, n))

\* The nodes applyRecursively calls f on, in the order of the calls.  The
\* order is fixed when the walk begins: f(n) changes nothing but the
\* children of n, whose turn has passed.
RECURSIVE visitOrderFrom(_, _)
visitOrder(h, n) == visitOrderFrom(h, Get(h, n, "firstChild")) \o <<n>>
visitOrderFrom(h, child) ==
    IF child = 0 THEN <<>>
    ELSE visitOrder(h, child) \o visitOrderFrom(h, Get(h, child, "next"))

RECURSIVE emphasisAll(_, _)
emphasisAll(h, ns) ==
    IF ns = <<>> THEN h ELSE emphasisAll(processEmphasis(h, Head(ns)), Tail(ns))

\* The passes of parseInlines (inline.go), in their order.
passes ==
    <<"processRawHTML", "processCodeSpans", "processAutolinks",
      "processBackslashEscapes", "processEmphasis", "processHardLineBreaks",
      "processSoftLineBreaks">>

\* One statement of parseInlines.
applyPass(h, n, f) ==
    IF f = "processEmphasis" THEN emphasisAll(h, visitOrder(h, n))
    ELSE applyRecursively(h, n, f)

RECURSIVE applyPasses(_, _, _)
applyPasses(h, n, fs) ==
    IF fs = <<>> THEN h ELSE applyPasses(applyPass(h, n, Head(fs)), n, Tail(fs))

\* parseInlines(n, text) of inline.go.
parseInlinesNode(h, n, text) ==
    applyPasses(SetContent(h, n, Text(trimWhitespaceRight(text))), n, passes)

-----------------------------------------------------------------------------
(* ToHTML of html.go. *)

startHTML(c) ==
    CASE c.type = "CodeSpan" -> <<"<", "c", "o", "d", "e", ">">>
      [] c.type = "Emphasis" -> <<"<", "e", "m", ">">>
      [] c.type = "StrongEmphasis" -> <<"<", "s", "t", "r", "o", "n", "g", ">">>
      [] c.type = "Paragraph" -> <<"<", "p", ">">>
      [] OTHER -> <<>>

endHTML(c) ==
    CASE c.type = "CodeSpan" -> <<"<", "/", "c", "o", "d", "e", ">">>
      [] c.type = "Emphasis" -> <<"<", "/", "e", "m", ">">>
      [] c.type = "StrongEmphasis" -> <<"<", "/", "s", "t", "r", "o", "n", "g", ">">>
      [] c.type = "Paragraph" -> <<"<", "/", "p", ">", "\n">>
      [] OTHER -> <<>>

\* contentHTML: what it writes, and wrote |-> what it returns.
contentHTML(c) ==
    CASE c.type \in {"Text", "CodeSpan"} ->
             [html |-> writeEscaped(c.bytes), panic |-> FALSE, wrote |-> TRUE]
      [] c.type = "RawHTML" -> [html |-> c.bytes, panic |-> FALSE, wrote |-> TRUE]
      [] c.type = "HardLineBreak" ->
             [html |-> <<"<", "b", "r", " ", "/", ">", "\n">>, panic |-> FALSE,
              wrote |-> TRUE]
      [] c.type \in {"RawText", "RawLine"} ->
             [html |-> <<>>, panic |-> TRUE, wrote |-> FALSE]
      [] OTHER -> [html |-> <<>>, panic |-> FALSE, wrote |-> FALSE]

\* The statements of ToHTML after contentHTML has returned w.
RECURSIVE ToHTMLFrom(_, _)
afterContent(h, n, w) ==
    IF w.panic \/ (w.wrote /\ Get(h, n, "firstChild") # 0)
    THEN [html |-> w.html, panic |-> TRUE]
    ELSE Then(Html(w.html),
              Then(ToHTMLFrom(h, Get(h, n, "firstChild")),
                   Html(endHTML(ContentOf(h, n)))))
ToHTML(h, n) ==
    Then(Html(startHTML(ContentOf(h, n))), afterContent(h, n, contentHTML(ContentOf(h, n))))
ToHTMLFrom(h, child) ==
    IF child = 0 THEN Html(<<>>)
    ELSE Then(ToHTML(h, child), ToHTMLFrom(h, Get(h, child, "next")))


-----------------------------------------------------------------------------
(* Inputs. *)

\* All byte sequences over the alphabet S of length at most n.
Seqs(S, n) == UNION {[1..k -> S] : k \in 0..n}

\* The lines, each followed by the terminator; the last one only if
\* `terminated`.
RECURSIVE Join(_, _, _)
Join(ls, term, terminated) ==
    IF ls = <<>> THEN <<>>
    ELSE IF Len(ls) = 1 /\ ~terminated THEN Head(ls)
    ELSE Head(ls) \o term \o Join(Tail(ls), term, terminated)

LF == <<"\n">>

CRLF == <<"\r", "\n">>

CR == <<"\r">>

\* Lines that between them reach every block rule.
LineVocab ==
    { <<"a">>,                               \* text
      <<" ", " ", "b", " ", " ">>,           \* text with spaces around it
      <<>>,                                  \* blank
      <<" ", " ", " ", " ", " ">>,           \* blank, five spaces
      <<"\t", "c">>,                         \* indented code
      <<">", " ", "a">>,                     \* quoted text
      <<">", " ", "#", " ", "a">>,           \* quoted header
      <<">", " ", " ", " ", " ", " ", "c">>, \* quoted indented code
      <<"#", " ", "a">>,                     \* ATX header
      <<"-", "-", "-">>,                     \* rule or setext underline
      <<"=", "=", "=">> }                    \* setext underline

\* A line no buffer of the scanner can hold.
LongLine == Repeat("a", MaxScanTokenSize)

\* Inputs of at most n vocabulary lines, LF-terminated.
VocabInputs(n) == {Join(ls, LF, TRUE) : ls \in Seqs(LineVocab, n)}

\* Inputs every specification includes, so that every rule is exercised.
CoreInputs == VocabInputs(2) \cup {LongLine \o LF}

-----------------------------------------------------------------------------
(* The state machine. *)

P == [nodes |-> nodes, openBlocks |-> openBlocks]

\* processEmphasis is not running.
emNone == [todo |-> <<>>, child |-> 0, i |-> 0, stack |-> <<>>]

InitWith(inputs) ==
    /\ data \in inputs
    /\ scanner = newScanner
    /\ line = <<>>
    /\ nodes = newParser.nodes
    /\ openBlocks = newParser.openBlocks
    /\ pc = "scan"
    /\ out = <<>>
    /\ err = "nil"
    /\ rawText = <<>>
    /\ heap = emptyHeap
    /\ em = emNone
    /\ calls = 0

Init == InitWith(VocabInputs(MaxLines) \cup CoreInputs)

\* scanner.Scan() returns true: the token, tab-expanded, with the sentinel.
ScanLine ==
    /\ pc = "scan"
    /\ LET r == Scan(data, scanner) IN
        /\ r.ok
        /\ scanner' = r.sc
        /\ line' = Append(tabsToSpaces(r.token), "\n")
    /\ pc' = "match"
    /\ UNCHANGED <<calls, rawText, heap, em, data, nodes, openBlocks, out, err>>

\* scanner.Scan() returns false at the end of the input.
ScanEnd ==
    /\ pc = "scan"
    /\ LET r == Scan(data, scanner) IN
        /\ ~r.ok
        /\ ScannerErr(r.sc) = "nil"
        /\ scanner' = r.sc
    /\ pc' = "inlines"
    /\ UNCHANGED <<calls, rawText, heap, em, data, line, nodes, openBlocks, out, err>>

\* scanner.Scan() returns false with an error, which ToHTMLBytes returns.
ScanFail ==
    /\ pc = "scan"
    /\ LET r == Scan(data, scanner) IN
        /\ ~r.ok
        /\ ScannerErr(r.sc) # "nil"
        /\ scanner' = r.sc
        /\ err' = ScannerErr(r.sc)
    /\ out' = <<>>
    /\ pc' = "done"
    /\ UNCHANGED <<calls, rawText, heap, em, data, line, nodes, openBlocks>>

\* Phase 1: match the open blocks, close the unmatched ones.
MatchOpenBlocks ==
    /\ pc = "match"
    /\ LET m == matchOpenBlocks(P, line) IN
        /\ openBlocks' = m.p.openBlocks
        /\ line' = m.line
    /\ pc' = "open"
    /\ UNCHANGED <<calls, rawText, heap, em, data, scanner, nodes, out, err>>

\* One iteration of the phase 2 loop.
TakeOpenStep ==
    /\ LET r == openStep(P, line) IN
        /\ nodes' = r.p.nodes
        /\ openBlocks' = r.p.openBlocks
        /\ line' = r.line
        /\ pc' = r.pc
    /\ UNCHANGED <<calls, rawText, heap, em, data, scanner, out, err>>

\* The tip accepts literal lines: the loop is not entered.
LiteralTip ==
    /\ pc = "open"
    /\ Branch(P, line) = "literal"
    /\ TakeOpenStep

OpenIndentedCodeBlock ==
    /\ pc = "open"
    /\ Branch(P, line) = "indentedCodeBlock"
    /\ TakeOpenStep

OpenBlockQuote ==
    /\ pc = "open"
    /\ Branch(P, line) = "blockQuote"
    /\ TakeOpenStep

OpenATXHeader ==
    /\ pc = "open"
    /\ Branch(P, line) = "atxHeader"
    /\ TakeOpenStep

ReplaceBySetextHeader ==
    /\ pc = "open"
    /\ Branch(P, line) = "setextHeader"
    /\ TakeOpenStep

OpenHorizontalRule ==
    /\ pc = "open"
    /\ Branch(P, line) = "horizontalRule"
    /\ TakeOpenStep

ConsumeBlankLine ==
    /\ pc = "open"
    /\ Branch(P, line) = "blank"
    /\ TakeOpenStep

OpenParagraph ==
    /\ pc = "open"
    /\ Branch(P, line) = "paragraph"
    /\ TakeOpenStep

\* The tip is a paragraph the line continues.
KeepTip ==
    /\ pc = "open"
    /\ Branch(P, line) = "break"
    /\ TakeOpenStep

\* Phase 3: the rest of the line goes to the tip.
AppendLine ==
    /\ pc = "append"
    /\ nodes' = appendLine(P, line).nodes
    /\ line' = <<>>
    /\ pc' = "scan"
    /\ UNCHANGED <<calls, rawText, heap, em, data, scanner, openBlocks, out, err>>

\* parse, phase two: processInlines(doc).
ProcessInlines ==
    /\ pc = "inlines"
    /\ nodes' = processInlines(nodes, 1)
    /\ pc' = "render"
    /\ UNCHANGED <<calls, rawText, heap, em, data, scanner, line, openBlocks, out, err>>

\* blockToHTML(doc, &buffer) returns and ToHTMLBytes returns the buffer.
RenderHTML ==
    /\ pc = "render"
    /\ LET h == blockToHTML(nodes, 1) IN
        /\ ~h.panic
        /\ out' = h.html
    /\ pc' = "done"
    /\ UNCHANGED <<calls, rawText, heap, em, data, scanner, line, nodes, openBlocks, err>>

\* blockToHTML panics.
RenderPanic ==
    /\ pc = "render"
    /\ blockToHTML(nodes, 1).panic
    /\ pc' = "panic"
    /\ UNCHANGED <<calls, rawText, heap, em, data, scanner, line, nodes, openBlocks, out, err>>

Next ==
    \/ ScanLine
    \/ ScanEnd
    \/ ScanFail
    \/ MatchOpenBlocks
    \/ LiteralTip
    \/ OpenIndentedCodeBlock
    \/ OpenBlockQuote
    \/ OpenATXHeader
    \/ ReplaceBySetextHeader
    \/ OpenHorizontalRule
    \/ ConsumeBlankLine
    \/ OpenParagraph
    \/ KeepTip
    \/ AppendLine
    \/ ProcessInlines
    \/ RenderHTML
    \/ RenderPanic

Spec == Init /\ [][Next]_vars

\* The step-by-step conversion ends where the function ToHTMLBytes says.
StepsAgree ==
    /\ pc = "done" => LET r == ToHTMLBytes(data)
                      IN ~r.panic /\ r.out = out /\ r.err = err
    /\ pc = "panic" => ToHTMLBytes(data).panic


-----------------------------------------------------------------------------
(* The inline pipeline on the parse tree: parseInlines of inline.go on the *)
(* RawText node of one paragraph, then ToHTML of html.go on the paragraph. *)
(* processEmphasis takes one step per delimiter string; every other pass   *)
(* is one step.                                                            *)

\* What processParagraphs builds for a paragraph: node 1, the Paragraph,
\* and its only child, node 2, the RawText.
paragraphOf(t) ==
    appendNew(NewNode(emptyHeap, NodeContent("Paragraph", <<>>)), 1,
              NodeContent("RawText", t))

InitInline(texts) ==
    /\ rawText \in texts
    /\ heap = paragraphOf(rawText)
    /\ em = emNone
    /\ pc = "parseInlines"
    /\ out = <<>>
    /\ err = "nil"
    /\ data = <<>>
    /\ scanner = newScanner
    /\ line = <<>>
    /\ nodes = newParser.nodes
    /\ openBlocks = newParser.openBlocks
    /\ calls = 0

\* Where control goes after a statement that leaves the heap h.
After(h, next) == IF h.panic # "" THEN "panic" ELSE next

\* The position of processEmphasis as the record its steps work on.
E == [h |-> heap, child |-> em.child, i |-> em.i, stack |-> em.stack]

\* n.SetContent(&Text{trimWhitespaceRight(text)})
SetText ==
    /\ pc = "parseInlines"
    /\ heap' = SetContent(heap, 2, Text(trimWhitespaceRight(rawText)))
    /\ pc' = After(heap', "processRawHTML")
    /\ UNCHANGED <<calls, rawText, em, data, scanner, line, nodes, openBlocks, out, err>>

\* applyRecursively(n, forTextNodes(f)) for the pass f, then on to `next`.
ApplyPass(f, next) ==
    /\ heap' = applyRecursively(heap, 2, f)
    /\ pc' = After(heap', next)
    /\ UNCHANGED <<calls, rawText, em, data, scanner, line, nodes, openBlocks, out, err>>

ApplyRawHTML == pc = "processRawHTML" /\ ApplyPass("processRawHTML", "processCodeSpans")

ApplyCodeSpans == pc = "processCodeSpans" /\ ApplyPass("processCodeSpans", "processAutolinks")

ApplyAutolinks == pc = "processAutolinks" /\ ApplyPass("processAutolinks", "processBackslashEscapes")

\* The last pass before applyRecursively(n, processEmphasis), whose walk
\* begins here.
ApplyBackslashEscapes ==
    /\ pc = "processBackslashEscapes"
    /\ heap' = applyRecursively(heap, 2, "processBackslashEscapes")
    /\ pc' = After(heap', "processEmphasis")
    /\ em' = [emNone EXCEPT !.todo = visitOrder(heap', 2)]
    /\ UNCHANGED <<calls, rawText, data, scanner, line, nodes, openBlocks, out, err>>

\* processEmphasis is called on the next node of the walk.
EnterEmphasis ==
    /\ pc = "processEmphasis"
    /\ em' = [em EXCEPT !.child = Get(heap, Head(em.todo), "firstChild"),
                        !.i = 0, !.stack = <<>>]
    /\ pc' = "emphasisLoop"
    /\ UNCHANGED <<calls, rawText, heap, data, scanner, line, nodes, openBlocks, out, err>>

\* One round of the loops of processEmphasis.
TakeEmphasisStep ==
    /\ pc = "emphasisLoop"
    /\ em.child # 0
    /\ heap' = emphasisStep(E).h
    /\ em' = [todo |-> em.todo] @@ [f \in {"child", "i", "stack"} |-> emphasisStep(E)[f]]
    /\ pc' = After(heap', "emphasisLoop")
    /\ UNCHANGED <<calls, rawText, data, scanner, line, nodes, openBlocks, out, err>>

\* The child is no Text node, or holds no further delimiter string.
EmphasisNextChild == emphasisBranch(E) = "nextChild" /\ TakeEmphasisStep

\* A string of more than three delimiters.
EmphasisIgnore == emphasisBranch(E) = "ignore" /\ TakeEmphasisStep

\* The delimiter string closes an entry of the stack.
EmphasisClose == emphasisBranch(E) = "close" /\ TakeEmphasisStep

\* The delimiter string is pushed onto the stack.
EmphasisOpen == emphasisBranch(E) = "open" /\ TakeEmphasisStep

\* The delimiter string can neither close nor open.
EmphasisPass == emphasisBranch(E) = "pass" /\ TakeEmphasisStep

\* processEmphasis returns; the walk goes on, or is over.
LeaveEmphasis ==
    /\ pc = "emphasisLoop"
    /\ em.child = 0
    /\ em' = [emNone EXCEPT !.todo = Tail(em.todo)]
    /\ pc' = IF Tail(em.todo) = <<>> THEN "processHardLineBreaks" ELSE "processEmphasis"
    /\ UNCHANGED <<calls, rawText, heap, data, scanner, line, nodes, openBlocks, out, err>>

ApplyHardLineBreaks == pc = "processHardLineBreaks" /\ ApplyPass("processHardLineBreaks", "processSoftLineBreaks")

ApplySoftLineBreaks == pc = "processSoftLineBreaks" /\ ApplyPass("processSoftLineBreaks", "ToHTML")

\* ToHTML(paragraph, out)
WriteHTML ==
    /\ pc = "ToHTML"
    /\ out' = ToHTML(heap, 1).html
    /\ pc' = IF ToHTML(heap, 1).panic THEN "panic" ELSE "done"
    /\ UNCHANGED <<calls, rawText, heap, em, data, scanner, line, nodes, openBlocks, err>>

NextInline ==
    \/ SetText
    \/ ApplyRawHTML
    \/ ApplyCodeSpans
    \/ ApplyAutolinks
    \/ ApplyBackslashEscapes
    \/ EnterEmphasis
    \/ EmphasisNextChild
    \/ EmphasisIgnore
    \/ EmphasisClose
    \/ EmphasisOpen
    \/ EmphasisPass
    \/ LeaveEmphasis
    \/ ApplyHardLineBreaks
    \/ ApplySoftLineBreaks
    \/ WriteHTML

\* Texts that between them take every step of the pipeline.
CoreTexts ==
    { <<"*", "*", "x", "*", "*">>,
      <<"*", "*", "*", "x", "*", "*", "*">>,
      <<"a", " ", "*", "b", " ", "*", "*", "c", "*", "*", " ", "d", "*", " ", "e">>,
      <<"*", "*", "*", "*", "a", " ", "*", " ", "b">>,
      <<backtick, "a", backtick, " ", "x", " ", backtick, "b", backtick>>,
      <<"\\", "*", "<", "a", ">">> }

\* Texts with backtick strings.
CodeSpanTexts == Seqs({backtick, "a", " "}, MaxCodeLen)

\* Texts that are one code span: a backtick, the content, a backtick.
WrappedTexts ==
    {<<backtick>> \o c \o <<backtick>> :
        c \in Seqs({" ", "\n", "a", "<", ">", "\\", "*"}, MaxSpanLen)}

\* A single backtick, "a ", two backticks, "b", two backticks, " c", a
\* single backtick.
NestedBackticks ==
    <<backtick, "a", " ", backtick, backtick, "b", backtick, backtick, " ", "c", backtick>>

InitCodeSpans ==
    InitInline(CodeSpanTexts \cup WrappedTexts \cup {NestedBackticks} \cup CoreTexts)

SpecCodeSpans == InitCodeSpans /\ [][NextInline]_vars

\* Texts with emphasis delimiters.
EmphasisTexts == Seqs({"*", "_", "a", " "}, MaxEmLen)

\* Texts where delimiters meet the nodes that the earlier passes make.
BoundaryTexts == Seqs({"*", "_", "a", " ", "\\", "<", ">"}, MaxBoundaryLen)

InitEmphasis == InitInline(EmphasisTexts \cup BoundaryTexts \cup CoreTexts)

SpecEmphasis == InitEmphasis /\ [][NextInline]_vars

\* A backslash and one more byte: every ASCII punctuation byte, and some
\* bytes that are none.
EscapePairs == {<<"\\", c>> : c \in asciiPunct \cup {"a", "b", "1"}}

\* Texts with backslashes before tags and delimiters.
EscapeTexts == Seqs({"\\", "<", "a", ">", "*"}, MaxEscLen)

InitEscapes == InitInline(EscapePairs \cup EscapeTexts \cup CoreTexts)

SpecEscapes == InitEscapes /\ [][NextInline]_vars

\* Texts that are one pair of angle brackets around a candidate URI or
\* address.
BracketedTexts ==
    {<<"<">> \o b \o <<">">> : b \in Seqs({"a", ":", "@", "."}, MaxLinkLen)}

\* <http://example.com>
ExampleLink ==
    <<"<", "h", "t", "t", "p", ":", "/", "/", "e", "x", "a", "m", "p", "l", "e", ".",
      "c", "o", "m", ">">>

InitAutolinks == InitInline(BracketedTexts \cup {ExampleLink} \cup CoreTexts)

SpecAutolinks == InitAutolinks /\ [][NextInline]_vars

\* Texts of the four escaped characters, a letter and a semicolon.
EscapedTexts == Seqs({"\"", "&", "<", ">", "a", ";"}, MaxEscapedLen)

InitEscaped == InitInline(EscapedTexts \cup CoreTexts)

SpecEscaped == InitEscaped /\ [][NextInline]_vars

\* The text x inside k pairs of delimiters, a word at the inner side of
\* each: "*a *a x a* a*" for k = 2.
RECURSIVE Nest(_)
Nest(k) ==
    IF k = 0 THEN <<"x">>
    ELSE <<"*", "a", " ">> \o Nest(k - 1) \o <<" ", "a", "*">>

NestedTexts == {Nest(k) : k \in 0..MaxNest}

InitNesting == InitInline(NestedTexts \cup CoreTexts)

SpecNesting == InitNesting /\ [][NextInline]_vars


-----------------------------------------------------------------------------
(* What the conversion is said to do. *)

\* The tokens the scanner yields for d from scanner state s on.
RECURSIVE TokensFrom(_, _)
TokensFrom(d, s) ==
    LET r == Scan(d, s)
    IN IF r.ok THEN <<r.token>> \o TokensFrom(d, r.sc) ELSE <<>>

\* The lines blockParser.parse works on: tab-expanded, with the sentinel.
InputLines(d) ==
    LET ts == TokensFrom(d, newScanner)
    IN [k \in 1..Len(ts) |-> Append(tabsToSpaces(ts[k]), "\n")]

\* C1: ToHTMLBytes returns an output and a nil error for every input; no
\* input, not even a single line longer than the scanner's maximum token
\* size, makes the scanner report an error or ToHTMLBytes return (nil, err).
C1_NilErrorForEveryInput ==
    /\ scanner.err \in {"nil", "EOF"}
    /\ pc = "done" => err = "nil"

\* The input with every "\r\n" and every other "\r" turned into "\n".
RECURSIVE ToLF(_)
ToLF(d) ==
    IF d = <<>> THEN <<>>
    ELSE IF Head(d) = "\r"
         THEN IF Len(d) >= 2 /\ d[2] = "\n"
              THEN LF \o ToLF(Tail(Tail(d)))
              ELSE LF \o ToLF(Tail(d))
         ELSE <<Head(d)>> \o ToLF(Tail(d))

\* Inputs of at most two vocabulary lines under each of the three line
\* endings, with and without the ending of the last line.
LineEndingInputs ==
    {Join(ls, term, t) : ls \in Seqs(LineVocab, MaxLines - 1),
                         term \in {LF, CRLF, CR}, t \in BOOLEAN}

InitLineEndings == InitWith(LineEndingInputs \cup CoreInputs)

SpecLineEndings == InitLineEndings /\ [][Next]_vars

\* C2: the result does not depend on the line-ending convention: an input
\* whose lines end in "\r\n" or in a lone "\r" is converted as the same lines
\* ending in "\n" are, however the bytes reach scanLines in chunks.
C2_LineEndingNeutral ==
    pc \in {"done", "panic"} =>
        LET r == ToHTMLBytes(ToLF(data))
        IN IF pc = "panic" THEN r.panic
           ELSE ~r.panic /\ r.out = out /\ r.err = err

\* The number of bytes of s equal to c.
RECURSIVE CountOf(_, _)
CountOf(s, c) ==
    IF s = <<>> THEN 0
    ELSE (IF Head(s) = c THEN 1 ELSE 0) + CountOf(Tail(s), c)

\* A line of text: not blank and not the start of another kind of block.
PlainTextLine(l) ==
    /\ ~isBlank(l)
    /\ FirstNonSpace(l) # ">"
    /\ parseATXHeader(l).level <= 0
    /\ parseSetextUnderline(l) <= 0
    /\ ~isHorizontalRule(l)

\* The block parser has seen the whole input.
ParseDone == pc \in {"inlines", "render", "done", "panic"} /\ err = "nil"

\* The lines after the first k are a run of text lines, the first of them
\* indented by less than 4, that starts the input or follows a blank line.
RunAfter(ls, k) ==
    /\ k < Len(ls)
    /\ k = 0 \/ isBlank(ls[k])
    /\ \A j \in (k + 1)..Len(ls) : PlainTextLine(ls[j])
    /\ indentation(ls[k + 1]) < 4

\* The lines after the first k, each stripped of its leading spaces.
StrippedRun(ls, k) ==
    Concat([j \in 1..(Len(ls) - k) |-> TrimLeftSpaces(ls[k + j])])

\* s starts with pfx and ends with sfx, with n newlines in between.
Wraps(s, pfx, sfx, n) ==
    /\ Len(s) >= Len(pfx) + Len(sfx)
    /\ SubSeq(s, 1, Len(pfx)) = pfx
    /\ SubSeq(s, Len(s) - Len(sfx) + 1, Len(s)) = sfx
    /\ CountOf(SubSeq(s, Len(pfx) + 1, Len(s) - Len(sfx)), "\n") = n

NoParagraphOpen ==
    \A k \in 1..Len(openBlocks) : nodes[openBlocks[k]].kind # "paragraph"

IsOpen(n) == \E k \in 1..Len(openBlocks) : openBlocks[k] = n

\* The parser is working on a line that is blank.
BlankInProgress == pc \in {"match", "open", "append"} /\ isBlank(line)

\* Every step on a blank line leaves no Paragraph open, and a Paragraph that
\* is closed stays closed and keeps its content.
C4_Step ==
    /\ BlankInProgress =>
        \A k \in 1..Len(openBlocks') : nodes'[openBlocks'[k]].kind # "paragraph"
    /\ \A n \in 1..Len(nodes) :
        (nodes[n].kind = "paragraph" /\ ~IsOpen(n)) =>
            /\ \A k \in 1..Len(openBlocks') : openBlocks'[k] # n
            /\ nodes'[n].content = nodes[n].content

\* Two text lines with a blank line between them end in two Paragraphs.
C4_TwoParagraphs ==
    ParseDone =>
        LET ls == InputLines(data) IN
        (/\ Len(ls) = 3
         /\ PlainTextLine(ls[1]) /\ indentation(ls[1]) < 4
         /\ isBlank(ls[2])
         /\ PlainTextLine(ls[3]) /\ indentation(ls[3]) < 4) =>
            LET last == Len(nodes) IN
            /\ {n \in 1..Len(nodes) : nodes[n].kind = "paragraph"} = {2, last}
            /\ last # 2
            /\ nodes[2].content = TrimLeftSpaces(ls[1])
            /\ nodes[last].content = TrimLeftSpaces(ls[3])
            /\ nodes[1].children[1] = 2
            /\ nodes[1].children[Len(nodes[1].children)] = last

C5_Step ==
    pc = "match" =>
        \A k \in 1..(Len(openBlocks) - 1) :
            nodes[openBlocks[k + 1]].kind = "blockQuote" =>
                LET m == matchFrom([P EXCEPT !.openBlocks = SubSeq(openBlocks, 1, k)],
                                   line, 0)
                    l == m.line
                    marker == /\ ~isBlank(l)
                              /\ FirstNonSpace(l) = ">"
                              /\ indentation(l) <= 3
                    lazy == nodes[Tip(P)].kind = "paragraph" /\ ~isBlank(l)
                IN m.i = k - 1 =>
                    /\ marker => Len(openBlocks') > k
                    /\ (~marker /\ ~lazy) => Len(openBlocks') <= k

\* C5: in phase 1 an open BlockQuote matches the line L (as it is after the
\* markers of the enclosing quotes are stripped) exactly when L is non-blank
\* and its first non-space byte is ">" at indentation at most 3.  With a
\* marker the quote stays open; without one, unless the tip is a Paragraph
\* that L lazily continues, the quote is closed.
C5_QuoteMatchesOnlyWithMarker == [][C5_Step]_vars

\* The line lazily continues the Paragraph at the tip, which is nested in
\* BlockQuotes only: it is a text line without a marker.
LazyCase ==
    /\ pc \in {"match", "open", "append"}
    /\ Len(openBlocks) >= 3
    /\ nodes[Tip(P)].kind = "paragraph"
    /\ \A k \in 2..(Len(openBlocks) - 1) : nodes[openBlocks[k]].kind = "blockQuote"
    /\ PlainTextLine(line)

\* Each phase leaves the blocks of a lazy continuation as they are; phase 3
\* appends the line to the Paragraph.
C6_Step ==
    LazyCase =>
        /\ openBlocks' = openBlocks
        /\ pc = "match" => pc' = "open" /\ nodes' = nodes /\ line' = line
        /\ pc = "open" => pc' = "append" /\ nodes' = nodes /\ line' = line
        /\ pc = "append" =>
            /\ pc' = "scan"
            /\ nodes' = [nodes EXCEPT ![Tip(P)].content = @ \o TrimLeftSpaces(line)]

QuotedThenLazy == <<">", " ", "a", "\n", "a", "\n">>

C6_Example ==
    (pc = "done" /\ data = QuotedThenLazy) =>
        /\ Len(nodes) = 3
        /\ nodes[1].children = <<2>> /\ nodes[2].kind = "blockQuote"
        /\ nodes[2].children = <<3>> /\ nodes[3].kind = "paragraph"
        /\ nodes[3].content = <<"a", "\n", "a", "\n">>
        /\ out = <<"<", "b", "l", "o", "c", "k", "q", "u", "o", "t", "e", ">", "\n",
                   "<", "p", ">", "a", "\n", "a", "<", "/", "p", ">", "\n",
                   "<", "/", "b", "l", "o", "c", "k", "q", "u", "o", "t", "e", ">", "\n">>

\* C6: lazy continuation.  When the tip of the open-block stack is a
\* Paragraph nested in one or more BlockQuotes and the next line is
\* non-blank, has no ">" marker and is not a block start, the line is
\* appended to that same Paragraph and no block is closed or opened; so
\* "> a" followed by "a" is one paragraph "a\na" inside one blockquote.
C6_LazyContinuation == [][C6_Step]_vars /\ [](C6_Example)

\* A line without a marker has been appended to a quoted Paragraph.
C6_Witness ==
    /\ pc = "scan"
    /\ data = QuotedThenLazy
    /\ openBlocks = <<1, 2, 3>>
    /\ nodes[3].content = <<"a", "\n", "a", "\n">>

\* The blocks of the tree: the document and every block some block lists.
InTree(n) ==
    \/ n = 1
    \/ \E m \in 1..Len(nodes) : \E k \in 1..Len(nodes[m].children) :
            nodes[m].children[k] = n

HeadingOnly == <<"#", " ", "a", "\n">>

\* C7: every Paragraph and every heading, ATX or setext, has its raw content
\* run through the inline analyzer before it is rendered, so that "# a"
\* renders as "<h1>a</h1>\n".
C7_HeadingsGetInlines ==
    /\ pc = "render" =>
        \A n \in 1..Len(nodes) :
            (InTree(n) /\ nodes[n].kind \in {"paragraph", "atxHeader"}) =>
                ~nodes[n].inlineContent.nil
    /\ (data = HeadingOnly /\ pc \in {"done", "panic"}) =>
        /\ pc = "done"
        /\ out = <<"<", "h", "1", ">", "a", "<", "/", "h", "1", ">", "\n">>

\* l matches ^ {0,3}(=+|-+) *\n$ with the underline character c.
SetextShape(l, c) ==
    \E i \in 0..3 : \E j \in 1..Len(l) : \E k \in 0..Len(l) :
        l = Repeat(" ", i) \o Repeat(c, j) \o Repeat(" ", k) \o LF

\* The tip is a Paragraph of exactly one line and the line is an underline.
SetextCase(c) ==
    /\ pc = "open"
    /\ nodes[Tip(P)].kind = "paragraph"
    /\ CountOf(nodes[Tip(P)].content, "\n") = 1
    /\ SetextShape(line, c)

\* The step on an underline below a one-line Paragraph replaces the
\* Paragraph by a heading; the step on an underline anywhere else makes no
\* heading and replaces no child.
C8_Step ==
    /\ \A c \in {"=", "-"} : SetextCase(c) =>
        LET n == Len(openBlocks)
            par == openBlocks[n]
            parent == openBlocks[n - 1]
            last == Len(nodes[parent].children)
            h == Len(nodes')
        IN /\ h = Len(nodes) + 1
           /\ nodes'[h].kind = "atxHeader"
           /\ nodes'[h].level = (IF c = "=" THEN 1 ELSE 2)
           /\ nodes'[h].content = nodes[par].content
           /\ nodes[parent].children[last] = par
           /\ nodes'[parent].children = [nodes[parent].children EXCEPT ![last] = h]
           /\ \A m \in 1..Len(nodes) : m # parent => nodes'[m] = nodes[m]
           /\ openBlocks' = SubSeq(openBlocks, 1, n - 1)
           /\ line' = <<>>
           /\ pc' = "scan"
    /\ (/\ pc = "open"
        /\ \E c \in {"=", "-"} : SetextShape(line, c) /\ ~SetextCase(c)) =>
        /\ Len(nodes') >= Len(nodes)
        /\ \A m \in (Len(nodes) + 1)..Len(nodes') : nodes'[m].kind # "atxHeader"
        /\ \A m \in 1..Len(nodes) :
            SubSeq(nodes'[m].children, 1, Len(nodes[m].children)) = nodes[m].children

\* C8: when the tip is a Paragraph of exactly one line and the line matches
\* ^ {0,3}(=+|-+) *\n$, the Paragraph is replaced in its parent, at the same
\* position and with the child count unchanged, by a heading of level 1 for
\* "=" and 2 for "-" that carries the Paragraph's raw bytes; the heading is
\* closed and the line consumed.  This comes before the reading of "---" as
\* a horizontal rule, and never happens when the Paragraph has two or more
\* lines or the tip is not a Paragraph.
C8_SetextHeading == [][C8_Step]_vars

\* "a" underlined by "---" has become a closed heading of level 2.
C8_Witness ==
    /\ pc = "scan"
    /\ data = <<"a", "\n", "-", "-", "-", "\n">>
    /\ Len(nodes) = 3
    /\ nodes[1].children = <<3>>
    /\ nodes[3].kind = "atxHeader" /\ nodes[3].level = 2
    /\ openBlocks = <<1>>

\* The heading level the line l stands for, 0 if none: at most 3 leading
\* spaces, a run of 1 to 6 "#", then a space or the end of the line.
ATXLevel(l) ==
    LET i == RunLength(l, " ")
        n == RunLength(From(l, i), "#")
    IN IF i <= 3 /\ n \in 1..6 /\ l[i + n + 1] \in {" ", "\n"} THEN n ELSE 0

\* The text of the heading l: what follows the opening run, without leading
\* and trailing spaces and without a closing run of "#" after a space.
ATXContent(l) ==
    LET i == RunLength(l, " ")
        n == RunLength(From(l, i), "#")
        text == TrimRightSpaces(SubSeq(l, i + n + 1, Len(l) - 1))
        open == SkipBack(text, Len(text), "#")
        unclosed == IF open = 0 \/ text[open] = " " THEN SubSeq(text, 1, open)
                    ELSE text
    IN TrimRightSpaces(TrimLeftSpaces(unclosed))

\* What the step that tries the line as an ATX header is to do.
C9_Step ==
    (/\ pc = "open"
     /\ Branch(P, line) \notin {"literal", "indentedCodeBlock", "blockQuote"}) =>
        LET h == Len(nodes')
            created == h = Len(nodes) + 1 /\ nodes'[h].kind = "atxHeader"
        IN /\ created <=> ATXLevel(line) > 0
           /\ created =>
                /\ nodes'[h].level = ATXLevel(line)
                /\ nodes'[h].content = ATXContent(line)

\* C9: parseATXHeader returns level n in 1..6 exactly when the line has at
\* most 3 leading spaces, then a run of exactly n "#", then a space or the
\* end of the line, and a non-positive level otherwise; the content is the
\* header text stripped of leading and trailing spaces and of an optional
\* closing run of "#" preceded by a space.
C9_ATXHeader == [][C9_Step]_vars

\* Every line of spaces and rule characters up to a length, alone and below
\* a one-line paragraph.
RuleInputs ==
    {ctx \o l \o LF :
        ctx \in {<<>>, <<"a", "\n">>},
        l \in Seqs({" ", "-", "*"}, MaxRuleLen)
              \cup Seqs({" ", "-", "_", "a"}, MaxMixedLen)}

InitRules == InitWith(RuleInputs \cup CoreInputs)

SpecRules == InitRules /\ [][Next]_vars

\* What stands between "&" and the end of an entity: "#" and decimal
\* digits, "#x" or "#X" and hexadecimal digits, with values on both sides
\* of every limit, and some that are no number.
EntityBodies ==
    {<<"#">> \o d : d \in Seqs({"0", "9"}, MaxDigits)}
    \cup {<<"#", x>> \o d : x \in {"x", "X"}, d \in Seqs({"0", "f"}, MaxDigits)}
    \cup { <<"#", "6", "5">>, <<"#", "x", "4", "1">>, <<"#", "X", "D", "8", "0", "0">>,
           <<"#", "5", "5", "2", "9", "6">>, <<"#", "1", "1", "1", "4", "1", "1", "1">>,
           <<"#", "1", "1", "1", "4", "1", "1", "2">>, <<"#", "x", "2", "0", "a", "c">>,
           <<"#", "4", "2", "9", "4", "9", "6", "7", "2", "9", "5">>,
           <<"#", "4", "2", "9", "4", "9", "6", "7", "2", "9", "6">>,
           <<"#", "x", "g">>, <<"#", "6", "a">>, <<"z", "z">>, <<>> }

\* One paragraph line: an entity or what looks like one, with and without
\* its semicolon, and with text after it.
EntityInputs ==
    {<<"&">> \o b \o post \o LF : b \in EntityBodies, post \in {<<";">>, <<>>, <<";", "b">>}}

InitEntities == InitWith(EntityInputs \cup CoreInputs)

SpecEntities == InitEntities /\ [][Next]_vars

\* Paragraphs of one or two lines, the first of which ends in spaces and
\* backslashes.
BreakInputs ==
    {Join(<<(<<"a">> \o t)>> \o ls, LF, TRUE) :
        t \in Seqs({" ", "\\"}, MaxBreakTail),
        ls \in {<<>>, <<(<<"b">>)>>, <<(<<" ", "b">>)>>}}

InitLineBreaks == InitWith(BreakInputs \cup CoreInputs)

SpecLineBreaks == InitLineBreaks /\ [][Next]_vars

\* One line of tabs, letters and bytes above 0x7F.
TabInputs == {l \o LF : l \in Seqs({"\t", "a", "xc3", "xbf", "xff"}, MaxTabLine)}

InitTabs == InitWith(TabInputs \cup CoreInputs)

SpecTabs == InitTabs /\ [][Next]_vars

\* Lines of block quotes: quoted text, a bare marker, a blank line, text,
\* a quote in a quote, an indented marker.
QuoteLines ==
    { <<">", " ", "a">>,
      <<">">>,
      <<>>,
      <<"a">>,
      <<">", " ", ">", " ", "a">>,
      <<" ", " ", ">", " ", "a">> }

QuoteInputs == {Join(ls, LF, TRUE) : ls \in Seqs(QuoteLines, MaxQuoteLines)}

InitQuotes == InitWith(QuoteInputs \cup CoreInputs)

SpecQuotes == InitQuotes /\ [][Next]_vars

-----------------------------------------------------------------------------
(* parseBlocks as block.go has it: documents, indented code blocks and     *)
(* paragraphs, the open blocks in a slice that only grows.                 *)

\* The loop over the open blocks from index k on, indent and blank being
\* those of the whole line: the index of the block that openBlock is left
\* at, the line, and whether a block failed to match.
RECURSIVE blockGoMatch(_, _, _, _, _)
blockGoMatch(p, l, k, indent, blank) ==
    IF k >= Len(p.openBlocks)
    THEN [open |-> Len(p.openBlocks) - 1, line |-> l, allMatched |-> TRUE]
    ELSE IF p.nodes[p.openBlocks[k + 1]].kind = "indentedCodeBlock"
         THEN IF indent >= 4 \/ blank
              THEN blockGoMatch(p, IF Len(l) > 4 THEN From(l, 4) ELSE From(l, Len(l) - 1),
                                k + 1, indent, blank)
              ELSE [open |-> k - 1, line |-> l, allMatched |-> FALSE]
    ELSE blockGoMatch(p, l, k + 1, indent, blank)

\* The loop for the line l.
blockGoMatched(p, l) ==
    blockGoMatch(p, l, 0, indentation(l), l[indentation(l) + 1] = "\n")

\* openBlock.AppendChild(child); openBlocks = append(openBlocks, child)
blockGoOpen(p, open, child) ==
    LET id == Len(p.nodes) + 1
    IN [nodes |-> Append([p.nodes EXCEPT ![p.openBlocks[open + 1]].children =
                                             Append(@, id)], child),
        openBlocks |-> Append(p.openBlocks, id)]

\* What the body of the loop does after the open blocks are matched.
blockGoBranch(p, l) ==
    LET m == blockGoMatched(p, l)
    IN IF AcceptsLines(p.nodes[p.openBlocks[m.open + 1]].kind) THEN "append"
       ELSE IF indentation(m.line) >= 4 THEN "indentedCodeBlock"
       ELSE IF l[indentation(l) + 1] = "\n" THEN "blank"
       ELSE "paragraph"

\* openBlock.AppendLine(line), openBlock being node n.
blockGoAppendLine(ns, n, l) ==
    [ns EXCEPT ![n].content =
        IF ns[n].kind = "paragraph" THEN @ \o TrimLeftSpaces(l) ELSE @ \o l]

\* The body of the loop for one line: the parser after it.
blockGoLine(p, l) ==
    LET m == blockGoMatched(p, l)
        b == blockGoBranch(p, l)
    IN CASE b = "append" ->
                [p EXCEPT !.nodes = blockGoAppendLine(p.nodes, p.openBlocks[m.open + 1], m.line)]
         [] b = "indentedCodeBlock" ->
                LET q == blockGoOpen(p, m.open, NewBlock("indentedCodeBlock", 0, <<>>))
                IN [q EXCEPT !.nodes = blockGoAppendLine(q.nodes, Len(q.nodes), From(m.line, 4))]
         [] b = "blank" -> p
         [] OTHER ->
                LET q == blockGoOpen(p, m.open, NewBlock("paragraph", 0, <<>>))
                IN [q EXCEPT !.nodes = blockGoAppendLine(q.nodes, Len(q.nodes), m.line)]

\* The body of the loop, for a line that takes branch b.
BlockGoLine(b) ==
    /\ blockGoBranch(P, line) = b
    /\ nodes' = blockGoLine(P, line).nodes
    /\ openBlocks' = blockGoLine(P, line).openBlocks
    /\ line' = <<>>
    /\ pc' = "scan"
    /\ UNCHANGED <<calls, rawText, heap, em, data, scanner, out, err>>

BlockGoAppendLine == pc = "match" /\ BlockGoLine("append")

BlockGoOpenCode == pc = "match" /\ BlockGoLine("indentedCodeBlock")

BlockGoBlank == pc = "match" /\ BlockGoLine("blank")

BlockGoOpenParagraph == pc = "match" /\ BlockGoLine("paragraph")

NextBlockGo ==
    \/ ScanLine
    \/ ScanEnd
    \/ ScanFail
    \/ BlockGoAppendLine
    \/ BlockGoOpenCode
    \/ BlockGoBlank
    \/ BlockGoOpenParagraph

SpecBlockGo == Init /\ [][NextBlockGo]_vars

-----------------------------------------------------------------------------
(* The tree operations on their own: a client that has made NumNodes nodes *)
(* and makes up to MaxCalls calls of the methods on them, in any order,    *)
(* nil included.  A panic ends the client.                                 *)

\* The fresh nodes of the client.
RECURSIVE freshNodes(_)
freshNodes(k) == IF k = 0 THEN emptyHeap ELSE NewNode(freshNodes(k - 1), nilContent)

\* A pointer the client can pass: one of its nodes, or nil.
Pointers == 0..NumNodes

InitTree ==
    /\ heap = freshNodes(NumNodes)
    /\ pc = "tree"
    /\ rawText = <<>>
    /\ em = emNone
    /\ out = <<>>
    /\ err = "nil"
    /\ data = <<>>
    /\ scanner = newScanner
    /\ line = <<>>
    /\ nodes = newParser.nodes
    /\ openBlocks = newParser.openBlocks
    /\ calls = 0

\* The client has called a method that left the heap h.
Called(h) ==
    /\ calls < MaxCalls
    /\ calls' = calls + 1
    /\ heap' = h
    /\ pc' = After(h, "tree")
    /\ UNCHANGED <<rawText, em, out, err, data, scanner, line, nodes, openBlocks>>

CallPrependChild == pc = "tree" /\ \E n, child \in Pointers : Called(PrependChild(heap, n, child))

CallAppendChild == pc = "tree" /\ \E n, child \in Pointers : Called(AppendChild(heap, n, child))

CallInsertBefore == pc = "tree" /\ \E n, sibling \in Pointers : Called(InsertBefore(heap, n, sibling))

CallInsertAfter == pc = "tree" /\ \E n, sibling \in Pointers : Called(InsertAfter(heap, n, sibling))

CallRemove == pc = "tree" /\ \E n \in Pointers : Called(Remove(heap, n))

CallInsertBefore005 == pc = "tree" /\ \E n, sibling \in Pointers : Called(InsertBefore005(heap, n, sibling))

CallInsertAfter005 == pc = "tree" /\ \E n, sibling \in Pointers : Called(InsertAfter005(heap, n, sibling))

CallReplace == pc = "tree" /\ \E n, replacement \in Pointers : Called(Replace(heap, n, replacement))

\* The methods of ast.go.
NextTree ==
    \/ CallPrependChild
    \/ CallAppendChild
    \/ CallInsertBefore
    \/ CallInsertAfter
    \/ CallRemove

SpecTree == InitTree /\ [][NextTree]_vars

\* The methods of the second text.
NextTree005 ==
    \/ CallPrependChild
    \/ CallAppendChild
    \/ CallInsertBefore005
    \/ CallInsertAfter005
    \/ CallRemove
    \/ CallReplace

SpecTree005 == InitTree /\ [][NextTree005]_vars

\* The 0-based index of the first byte of l that is not a space.
FirstIndex(l) == RunLength(l, " ")

\* l holds only spaces and three or more of one character out of "-", "_"
\* and "*", the first of them at index 3 at most.
RuleShape(l) ==
    LET body == SubSeq(l, 1, Len(l) - 1)
        chars == {body[k] : k \in 1..Len(body)} \ {" "}
    IN /\ Cardinality(chars) = 1
       /\ chars \subseteq {"-", "_", "*"}
       /\ Len(body) - CountOf(body, " ") >= 3
       /\ FirstIndex(body) <= 3

\* isHorizontalRule decides the shape of every line the parser works on.
C10_Shape ==
    pc \in {"match", "open"} => (isHorizontalRule(line) <=> RuleShape(line))

\* The step that tries the line as a rule makes one exactly for a line of
\* that shape; it appends the rule to the nearest open container, closing
\* what is above it, leaves the rule closed and consumes the line.
C10_Step ==
    (/\ pc = "open"
     /\ Branch(P, line) \notin {"literal", "indentedCodeBlock", "blockQuote",
                                "atxHeader", "setextHeader"}) =>
        LET h == Len(nodes')
            created == h = Len(nodes) + 1 /\ nodes'[h].kind = "horizontalRule"
            n == Len(openBlocks)
            c == IF CanContain(nodes[openBlocks[n]].kind) THEN n ELSE n - 1
            container == openBlocks[c]
        IN /\ created <=> RuleShape(line)
           /\ created =>
                /\ CanContain(nodes[container].kind)
                /\ nodes'[container].children = Append(nodes[container].children, h)
                /\ \A m \in 1..Len(nodes) : m # container => nodes'[m] = nodes[m]
                /\ nodes'[h].children = <<>>
                /\ openBlocks' = SubSeq(openBlocks, 1, c)
                /\ line' = <<>>
                /\ pc' = "scan"

\* C10: isHorizontalRule(L) is true exactly when L consists only of spaces
\* and at least three occurrences of one character from "-", "_", "*", the
\* first at index at most 3.  A recognised rule closes the open Paragraph,
\* appends a HorizontalRule to the nearest enclosing container, leaves it
\* closed and consumes the line.
C10_HorizontalRule == [](C10_Shape) /\ [][C10_Step]_vars

\* A rule has closed the paragraph above it and sits beside it, closed.
C10_Witness ==
    /\ pc = "scan"
    /\ data = <<"a", "\n", " ", "*", "*", " ", "*", "\n">>
    /\ openBlocks = <<1>>
    /\ nodes[1].children = <<2, 3>>
    /\ nodes[2].kind = "paragraph"
    /\ nodes[3].kind = "horizontalRule"

\* The tip is an IndentedCodeBlock and every block below it matches the line.
CodeBlockReached ==
    /\ nodes[Tip(P)].kind = "indentedCodeBlock"
    /\ matchFrom([P EXCEPT !.openBlocks = SubSeq(openBlocks, 1, Len(openBlocks) - 1)],
                 line, 0).i = Len(openBlocks) - 2

\* The line as the IndentedCodeBlock at the tip gets it.
CodeBlockLine ==
    matchFrom([P EXCEPT !.openBlocks = SubSeq(openBlocks, 1, Len(openBlocks) - 1)],
              line, 0).line

\* l without its first four spaces; a blank line of fewer spaces is left
\* with its newline only.
WithoutCodeIndent(l) ==
    IF RunLength(l, " ") >= 4 THEN SubSeq(l, 5, Len(l)) ELSE <<"\n">>

\* Phase 1 keeps the code block for an indented or blank line and strips the
\* indent; phase 2 leaves such a line alone; phase 3 appends it as it is.
C11_Step ==
    /\ (pc = "match" /\ CodeBlockReached) =>
        LET l == CodeBlockLine
            continues == RunLength(l, " ") >= 4 \/ isBlank(l)
        IN /\ continues <=> openBlocks' = openBlocks
           /\ ~continues => Len(openBlocks') = Len(openBlocks) - 1
           /\ continues => line' = WithoutCodeIndent(l)
           /\ nodes' = nodes
    /\ (pc = "open" /\ nodes[Tip(P)].kind = "indentedCodeBlock") =>
        /\ pc' = "append"
        /\ line' = line /\ nodes' = nodes /\ openBlocks' = openBlocks
    /\ (pc = "append" /\ nodes[Tip(P)].kind = "indentedCodeBlock") =>
        /\ nodes' = [nodes EXCEPT ![Tip(P)].content = @ \o line]
        /\ openBlocks' = openBlocks
        /\ pc' = "scan"

TwoCodeLines == <<"\t", "c", "\n", "\t", "c", "\n">>

C11_Example ==
    (pc = "done" /\ data = TwoCodeLines) =>
        out = <<"<", "p", "r", "e", ">", "<", "c", "o", "d", "e", ">",
                "c", "\n", "c", "\n",
                "<", "/", "c", "o", "d", "e", ">", "<", "/", "p", "r", "e", ">", "\n">>

\* C11: an open IndentedCodeBlock continues on a line iff the line has
\* indent >= 4 or is blank; on a match exactly four leading spaces are
\* removed (all but the final newline of a blank line with fewer than four),
\* the rest is appended verbatim and no block-start check of phase 2 is
\* applied to the line.  So two indented lines "c" and "c" render as
\* <pre><code>c\nc\n</code></pre>.
C11_IndentedCodeContinues == [][C11_Step]_vars /\ [](C11_Example)

\* A code block that continued over a blank line.
C11_Witness ==
    /\ pc = "scan"
    /\ openBlocks = <<1, 2>>
    /\ nodes[2].kind = "indentedCodeBlock"
    /\ nodes[2].content = <<"c", "\n", "\n", "c", "\n">>

\* The children of n, first to last.
RECURSIVE ChildrenFrom(_, _)
ChildrenFrom(h, c) ==
    IF c = 0 THEN <<>> ELSE <<c>> \o ChildrenFrom(h, h.nodes[c].next)

ChildrenOf(h, n) == ChildrenFrom(h, h.nodes[n].firstChild)

\* The contents of the children of n, first to last.
ContentsOf(h, n) ==
    [k \in 1..Len(ChildrenOf(h, n)) |-> h.nodes[ChildrenOf(h, n)[k]].content]

\* The text parseInlines works on.
TrimmedText == trimWhitespaceRight(rawText)

\* The backtick strings of t, left to right: where each starts and how
\* long it is.
RECURSIVE BacktickStringsFrom(_, _)
BacktickStringsFrom(t, i) ==
    IF i >= Len(t) THEN <<>>
    ELSE IF At(t, i) # backtick THEN BacktickStringsFrom(t, i + 1)
    ELSE <<[start |-> i, len |-> SkipRun(t, i, {backtick}) - i]>>
         \o BacktickStringsFrom(t, SkipRun(t, i, {backtick}))

BacktickStrings(t) == BacktickStringsFrom(t, 0)

\* s without the spaces and newlines at its ends and with one space for
\* every run of them inside.
RECURSIVE SpaceNormalFrom(_)
SpaceNormalFrom(s) ==
    IF s = <<>> THEN <<>>
    ELSE IF Head(s) \notin {" ", "\n"} THEN <<Head(s)>> \o SpaceNormalFrom(Tail(s))
    ELSE IF Tail(s) = <<>> THEN <<>>
    ELSE IF Head(Tail(s)) \in {" ", "\n"} THEN SpaceNormalFrom(Tail(s))
    ELSE <<" ">> \o SpaceNormalFrom(Tail(s))

RECURSIVE SpaceNormal(_)
SpaceNormal(s) ==
    IF s # <<>> /\ Head(s) \in {" ", "\n"} THEN SpaceNormal(Tail(s))
    ELSE SpaceNormalFrom(s)

\* No byte of t belongs to another inline rule than the code span's.
OnlyBackticks(t) == \A k \in 1..Len(t) : t[k] \notin {"\\", "<", ">", "*", "_", "\n"}

\* The backtick strings bs of t taken pairwise: the text before a pair,
\* its code span, ..., the text after the last pair.
RECURSIVE PairedSpans(_, _, _)
PairedSpans(t, bs, from) ==
    IF bs = <<>> THEN <<Text(From(t, from))>>
    ELSE <<Text(Slice(t, from, bs[1].start)),
           NodeContent("CodeSpan", SpaceNormal(Slice(t, bs[1].start + 1, bs[2].start)))>>
         \o PairedSpans(t, Tail(Tail(bs)), bs[2].start + 1)

\* t holds n pairs of single backticks.
SinglePairs(t, n) ==
    /\ OnlyBackticks(t)
    /\ Len(BacktickStrings(t)) = 2 * n
    /\ \A k \in 1..(2 * n) : BacktickStrings(t)[k].len = 1

\* C12: every code span of a text is converted: for a text with n >= 2
\* disjoint pairs of equal-length backtick strings processCodeSpans makes n
\* CodeSpan nodes, in order, with the text before, between and after them
\* left as Text nodes.
C12_EveryCodeSpanConverted ==
    (pc = "processAutolinks" /\ \E n \in 2..Len(rawText) : SinglePairs(TrimmedText, n)) =>
        ContentsOf(heap, 2) = PairedSpans(TrimmedText, BacktickStrings(TrimmedText), 0)

\* The first backtick string of bs, from the k-th on, that a later one
\* equals in length: its index, or 0.
RECURSIVE FirstOpener(_, _)
FirstOpener(bs, k) ==
    IF k > Len(bs) THEN 0
    ELSE IF \E j \in (k + 1)..Len(bs) : bs[j].len = bs[k].len THEN k
    ELSE FirstOpener(bs, k + 1)

\* The first backtick string after the k-th that equals it in length.
FirstCloser(bs, k) ==
    CHOOSE j \in (k + 1)..Len(bs) :
        /\ bs[j].len = bs[k].len
        /\ \A l \in (k + 1)..(j - 1) : bs[l].len # bs[k].len

\* The first code span of t starts at the earliest backtick string with a
\* partner and ends at that string's earliest partner.
FirstSpanIsEarliest(t, bs, k) ==
    IF k = 0 THEN ContentsOf(heap, 2) = <<Text(t)>>
    ELSE /\ Len(ContentsOf(heap, 2)) >= 2
         /\ ContentsOf(heap, 2)[1] = Text(Slice(t, 0, bs[k].start))
         /\ ContentsOf(heap, 2)[2] =
                NodeContent("CodeSpan",
                    SpaceNormal(Slice(t, bs[k].start + bs[k].len,
                                      bs[FirstCloser(bs, k)].start)))

\* C13: the code span starts at the earliest backtick string that has a
\* later backtick string of equal length and ends at the earliest such
\* closer; a backtick string without a partner stays literal text.  In the
\* text of a single backtick, "a ", two backticks, "b", two backticks,
\* " c", a single backtick, the span is opened by the first backtick and
\* closed by the last one.
C13_EarliestOpenerWins ==
    (pc = "processAutolinks" /\ OnlyBackticks(TrimmedText)) =>
        FirstSpanIsEarliest(TrimmedText, BacktickStrings(TrimmedText),
                            FirstOpener(BacktickStrings(TrimmedText), 1))

\* The raw text is one code span and nothing else: a backtick, bytes
\* without a backtick, a backtick.
WrappedSpan ==
    /\ Len(rawText) >= 3
    /\ rawText[1] = backtick
    /\ rawText[Len(rawText)] = backtick
    /\ \A k \in 2..(Len(rawText) - 1) : rawText[k] # backtick

\* C14: bytes inside a code span are never interpreted by another inline
\* rule, and a code span is recognised also when its content looks like an
\* HTML tag, an autolink or a delimiter run, or ends in a backslash: a
\* text that is one code span is rendered as that code span, whatever its
\* content.
C14_CodeSpanContentIsFrozen ==
    (pc = "done" /\ WrappedSpan) =>
        out = <<"<", "p", ">", "<", "c", "o", "d", "e", ">">>
              \o writeEscaped(SpaceNormal(SubSeq(rawText, 2, Len(rawText) - 1)))
              \o <<"<", "/", "c", "o", "d", "e", ">", "<", "/", "p", ">", "\n">>

\* c is the content of a code span cut out of t between the texts p and s.
IsSpanBetween(t, p, c, s) ==
    \E k \in 1..Len(t) :
        /\ Len(p) + 2 * k + Len(s) <= Len(t)
        /\ p = SubSeq(t, 1, Len(p))
        /\ s = SubSeq(t, Len(t) - Len(s) + 1, Len(t))
        /\ \A j \in 1..k : t[Len(p) + j] = backtick /\ t[Len(t) - Len(s) - k + j] = backtick
        /\ c = SpaceNormal(SubSeq(t, Len(p) + k + 1, Len(t) - Len(s) - k))

\* c has no space or newline at its ends, no newline and no two spaces in
\* a row.
IsCollapsed(c) ==
    /\ c # <<>> => c[1] \notin {" ", "\n"} /\ c[Len(c)] \notin {" ", "\n"}
    /\ \A k \in 1..Len(c) : c[k] # "\n"
    /\ \A k \in 1..(Len(c) - 1) : ~(c[k] = " " /\ c[k + 1] = " ")

\* What processCodeSpans is to leave under a Text node n.
C15_Node(n) ==
    LET cs == ContentsOf(heap', n)
    IN \/ Len(cs) = 1 /\ cs[1].type = "Text"
       \/ /\ Len(cs) = 3
          /\ cs[1].type = "Text" /\ cs[2].type = "CodeSpan" /\ cs[3].type = "Text"
          /\ IsSpanBetween(heap.nodes[n].content.bytes, cs[1].bytes, cs[2].bytes,
                           cs[3].bytes)
          /\ IsCollapsed(cs[2].bytes)

C15_Step ==
    (pc = "processCodeSpans" /\ pc' = "processAutolinks") =>
        \A n \in 1..Len(heap.nodes) :
            heap.nodes[n].content.type = "Text" => C15_Node(n)

\* C15: the content of every CodeSpan node equals the bytes between its
\* two backtick strings with leading and trailing spaces and newlines
\* removed and every interior run of spaces and newlines replaced by one
\* space; it never starts or ends with a space or newline, holds no
\* newline and holds no two adjacent spaces.
C15_CodeSpanCollapsed == [][C15_Step]_vars

\* A code span whose content had a run of a space and a newline to collapse.
C15_Witness ==
    /\ pc = "processAutolinks"
    /\ rawText = <<backtick, " ", "a", "\n", " ", "a", backtick>> \/
       rawText = <<backtick, "a", " ", "\n", "a", backtick>>
    /\ ContentsOf(heap, 2)[2] = NodeContent("CodeSpan", <<"a", " ", "a">>)

\* The delimiter string that the loops of processEmphasis meet next.
NextRun == nextString(heap, em.child, em.i)

\* The number of delimiters of the string met next.
RunLen == NextRun.i - NextRun.delimsStart

\* A round of the loops that matches the string met next with an entry of
\* the stack: it is the only round that makes nodes.
IsMatch == pc = "emphasisLoop" /\ Len(heap'.nodes) > Len(heap.nodes)

\* The entry of the stack that is matched: the topmost one with the
\* delimiter of the string.
Opener ==
    em.stack[CHOOSE j \in 1..Len(em.stack) :
                 /\ em.stack[j].delimChar = NextRun.c
                 /\ \A l \in (j + 1)..Len(em.stack) : em.stack[l].delimChar # NextRun.c]

\* Where the entry sits in the stack.
OpenerIndex == CHOOSE j \in 1..Len(em.stack) : em.stack[j] = Opener

\* The number of delimiters that the rule takes from each side.
Consumed ==
    IF RunLen = 3 /\ Opener.numDelims = 3 THEN 1
    ELSE IF RunLen >= 2 /\ Opener.numDelims >= 2 THEN 2
    ELSE 1

\* The three nodes a match makes.
NodeAfterCloser == Len(heap.nodes) + 1
OpenerRest == Len(heap.nodes) + 2
EmphasisNode == Len(heap.nodes) + 3

C16_Step ==
    IsMatch =>
        /\ heap'.panic = ""
        /\ Len(heap'.nodes) = EmphasisNode
        /\ heap'.nodes[EmphasisNode].content =
               NodeContent(IF Consumed = 2 THEN "StrongEmphasis" ELSE "Emphasis", <<>>)
        \* Consumed delimiters are gone from the closer's side ...
        /\ heap'.nodes[NodeAfterCloser].content =
               Text(From(NextRun.text, NextRun.delimsStart + Consumed))
        \* ... and from the opener's side.
        /\ heap'.nodes[Opener.textNode].content =
               Text(Slice(heap.nodes[Opener.textNode].content.bytes, 0,
                          Opener.delimsStart + Opener.numDelims - Consumed))
        /\ heap'.nodes[OpenerRest].content =
               Text(Slice(heap.nodes[Opener.textNode].content.bytes,
                          Opener.delimsStart + Opener.numDelims,
                          IF Opener.textNode = em.child THEN NextRun.delimsStart
                          ELSE Len(heap.nodes[Opener.textNode].content.bytes)))

StrongText == <<"*", "*", "x", "*", "*">>
StrongEmText == <<"*", "*", "*", "x", "*", "*", "*">>

C16_Examples ==
    pc = "done" =>
        /\ rawText = StrongText =>
               out = <<"<", "p", ">", "<", "s", "t", "r", "o", "n", "g", ">", "x",
                       "<", "/", "s", "t", "r", "o", "n", "g", ">", "<", "/", "p", ">", "\n">>
        /\ rawText = StrongEmText =>
               out = <<"<", "p", ">", "<", "s", "t", "r", "o", "n", "g", ">",
                       "<", "e", "m", ">", "x", "<", "/", "e", "m", ">",
                       "<", "/", "s", "t", "r", "o", "n", "g", ">", "<", "/", "p", ">", "\n">>

\* C16: a match consumes k delimiters of each side, k = 1 if both strings
\* have three delimiters, else 2 if both have two or more, else 1; k = 2
\* makes a StrongEmphasis node and k = 1 an Emphasis node; so "**x**" comes
\* out as <strong>x</strong> and "***x***" as <strong><em>x</em></strong>.
C16_DelimitersConsumed == [][C16_Step]_vars /\ [](C16_Examples)

\* Two strings of three delimiters have been matched once, with one
\* delimiter of each consumed, and two of the opener are left on the stack.
C16_Witness ==
    /\ pc = "emphasisLoop"
    /\ rawText = StrongEmText
    /\ Len(heap.nodes) > 0
    /\ heap.nodes[Len(heap.nodes)].content.type = "Emphasis"
    /\ Len(em.stack) = 1
    /\ em.stack[1].numDelims = 2

\* The siblings from c up to, and without, the node stop.
RECURSIVE SiblingsUntil(_, _, _)
SiblingsUntil(h, c, stop) ==
    IF c = 0 \/ c = stop THEN <<>>
    ELSE <<c>> \o SiblingsUntil(h, h.nodes[c].next, stop)

\* The siblings after the opener's node up to and with the closer's node:
\* what lies between the consumed delimiters, but for the rest of the
\* opener's own node.
Between ==
    IF Opener.textNode = em.child THEN <<>>
    ELSE SiblingsUntil(heap, heap.nodes[Opener.textNode].next, em.child) \o <<em.child>>

\* The entry still names its delimiters: a Text node among the children
\* that are being scanned, with the entry's delimiters where it says.
StillValid(h, entry, parent) ==
    /\ h.nodes[entry.textNode].parent = parent
    /\ h.nodes[entry.textNode].content.type = "Text"
    /\ entry.numDelims > 0
    /\ entry.delimsStart + entry.numDelims <= Len(h.nodes[entry.textNode].content.bytes)
    /\ \A p \in (entry.delimsStart + 1)..(entry.delimsStart + entry.numDelims) :
           h.nodes[entry.textNode].content.bytes[p] = entry.delimChar

C17_Step ==
    IsMatch =>
        \* The new node comes directly after the opener's Text node.
        /\ heap'.nodes[Opener.textNode].next = EmphasisNode
        /\ heap'.nodes[EmphasisNode].prev = Opener.textNode
        /\ heap'.nodes[EmphasisNode].parent = heap.nodes[em.child].parent
        /\ heap'.nodes[EmphasisNode].next = NodeAfterCloser
        /\ heap'.nodes[NodeAfterCloser].next = heap.nodes[em.child].next
        \* What was between the delimiters is underneath it, in its order.
        /\ ChildrenOf(heap', EmphasisNode) = <<OpenerRest>> \o Between
        /\ \A k \in 1..Len(Between) :
               /\ heap'.nodes[Between[k]].parent = EmphasisNode
               /\ heap'.nodes[Between[k]].firstChild = heap.nodes[Between[k]].firstChild
               /\ heap'.nodes[Between[k]].content =
                      IF Between[k] = em.child
                      THEN Text(Slice(NextRun.text, 0, NextRun.delimsStart))
                      ELSE heap.nodes[Between[k]].content
        \* The stack: cut to below the opener, the opener back on it with
        \* the delimiters it has left.
        /\ em'.stack = SubSeq(em.stack, 1, OpenerIndex - 1) \o
                       (IF Opener.numDelims > Consumed
                        THEN <<[Opener EXCEPT !.numDelims = @ - Consumed]>> ELSE <<>>)
        /\ \A l \in 1..Len(em'.stack) :
               StillValid(heap', em'.stack[l], heap.nodes[em.child].parent)
        \* The delimiters the closer has left are met next.
        /\ em'.child = NodeAfterCloser
        /\ em'.i = 0
        /\ RunLen > Consumed =>
               /\ ~nextString(heap', em'.child, em'.i).none
               /\ nextString(heap', em'.child, em'.i).c = NextRun.c
               /\ nextString(heap', em'.child, em'.i).delimsStart = 0
               /\ nextString(heap', em'.child, em'.i).i = RunLen - Consumed

NestedEmText ==
    <<"a", " ", "*", "b", " ", "*", "*", "c", "*", "*", " ", "d", "*", " ", "e">>

C17_Example ==
    (pc = "done" /\ rawText = NestedEmText) =>
        out = <<"<", "p", ">", "a", " ", "<", "e", "m", ">", "b", " ",
                "<", "s", "t", "r", "o", "n", "g", ">", "c",
                "<", "/", "s", "t", "r", "o", "n", "g", ">", " ", "d",
                "<", "/", "e", "m", ">", " ", "e", "<", "/", "p", ">", "\n">>

\* C17: on each match the new node is inserted directly after the opener's
\* Text node, the siblings between the consumed delimiters become its
\* children in their order, the stack is cut to below the matched entry
\* with its remaining entries still valid, an opener with delimiters left
\* stays on the stack, and the delimiters a closer has left are scanned
\* again; "a *b **c** d* e" comes out as <p>a <em>b <strong>c</strong>
\* d</em> e</p>.
C17_MatchRebuildsTree == [][C17_Step]_vars /\ [](C17_Example)

\* The outer match of the example: the Emphasis node has taken the rest of
\* the opener's node, the StrongEmphasis node and the text before the
\* closer.
C17_Witness ==
    /\ pc = "emphasisLoop"
    /\ rawText = NestedEmText
    /\ Len(heap.nodes) > 0
    /\ heap.nodes[Len(heap.nodes)].content.type = "Emphasis"
    /\ Len(ChildrenOf(heap, Len(heap.nodes))) = 3
    /\ heap.nodes[ChildrenOf(heap, Len(heap.nodes))[2]].content.type = "StrongEmphasis"

\* The number of bytes of the paragraph text that the node n and what is
\* underneath it stand for; consumed delimiters are those of the Emphasis
\* and StrongEmphasis nodes.
RECURSIVE FlatLen(_, _)
RECURSIVE FlatFrom(_, _)
FlatLen(h, n) ==
    CASE h.nodes[n].content.type \in {"Text", "RawHTML"} ->
             Len(h.nodes[n].content.bytes)
      [] h.nodes[n].content.type = "BackslashEscape" -> 2
      [] h.nodes[n].content.type = "Emphasis" -> 2 + FlatFrom(h, h.nodes[n].firstChild)
      [] h.nodes[n].content.type = "StrongEmphasis" ->
             4 + FlatFrom(h, h.nodes[n].firstChild)
      [] OTHER -> FlatFrom(h, h.nodes[n].firstChild)
FlatFrom(h, c) == IF c = 0 THEN 0 ELSE FlatLen(h, c) + FlatFrom(h, h.nodes[c].next)

\* The bytes that the siblings before n stand for.
RECURSIVE FlatBefore(_, _)
FlatBefore(h, n) ==
    IF h.nodes[n].prev = 0 THEN 0
    ELSE FlatLen(h, h.nodes[n].prev) + FlatBefore(h, h.nodes[n].prev)

\* Where in the paragraph text the first byte of the node n is.
RECURSIVE Offset(_, _)
Offset(h, n) ==
    IF h.nodes[n].parent = 0 THEN 0
    ELSE Offset(h, h.nodes[n].parent) + FlatBefore(h, n)
         + (CASE h.nodes[h.nodes[n].parent].content.type = "Emphasis" -> 1
              [] h.nodes[h.nodes[n].parent].content.type = "StrongEmphasis" -> 2
              [] OTHER -> 0)

\* The byte of the paragraph text at the index p from 0, "" outside of it.
ParagraphAt(p) == IF p < 0 \/ p >= Len(TrimmedText) THEN "" ELSE TrimmedText[p + 1]

\* The neighbours, in the paragraph text, of the string met next.
Before == ParagraphAt(Offset(heap, em.child) + NextRun.delimsStart - 1)
After_ == ParagraphAt(Offset(heap, em.child) + NextRun.i)

CanOpen == ~isASCIISpace(After_) /\ (NextRun.c = "_" => ~isASCIIAlNum(Before))
CanClose == ~isASCIISpace(Before) /\ (NextRun.c = "_" => ~isASCIIAlNum(After_))

\* A round of the loops that meets a string of one to three delimiters.
MeetsRun == pc = "emphasisLoop" /\ em.child # 0 /\ ~NextRun.none /\ RunLen <= 3

C18_Step ==
    MeetsRun =>
        \* The string is where the offsets say it is.
        /\ \A p \in NextRun.delimsStart..(NextRun.i - 1) :
               ParagraphAt(Offset(heap, em.child) + p) = NextRun.c
        \* It closes iff it can close and an opener of its kind waits.
        /\ IsMatch <=> (CanClose /\ \E l \in 1..Len(em.stack) :
                                        em.stack[l].delimChar = NextRun.c)
        \* Else it is pushed iff it can open.
        /\ ~IsMatch =>
               em'.stack = IF CanOpen
                           THEN Append(em.stack, [delimChar |-> NextRun.c,
                                                  delimsStart |-> NextRun.delimsStart,
                                                  numDelims |-> RunLen,
                                                  textNode |-> em.child])
                           ELSE em.stack

\* C18: a delimiter string can open emphasis iff the character after it is
\* no ASCII whitespace and, for "_", the character before it is not ASCII
\* alphanumeric; it can close iff the character before it is no ASCII
\* whitespace and, for "_", the character after it is not ASCII
\* alphanumeric; before and after are the neighbours in the paragraph
\* text, also at the first or last byte of a Text node made by a split.
C18_OpenAndCloseByNeighbours == [][C18_Step]_vars

\* A "_" at the first byte of the Text node after a backslash escape has
\* been pushed: "\*_a".
C18_Witness ==
    /\ pc = "emphasisLoop"
    /\ rawText = <<"\\", "*", "_", "a">>
    /\ Len(em.stack) = 1
    /\ em.stack[1].delimChar = "_"
    /\ em.stack[1].delimsStart = 0
    /\ Offset(heap, em.stack[1].textNode) = 2

\* The output for a paragraph with the inline content html.
ParagraphHTML(html) == <<"<", "p", ">">> \o html \o <<"<", "/", "p", ">", "\n">>

\* C19: for every ASCII punctuation byte c the two bytes backslash, c are
\* rendered as the one character c, HTML-escaped where needed, and c is
\* no delimiter and starts no tag; a backslash before another byte is
\* rendered as a backslash followed by that byte.
C19_BackslashEscapeRendered ==
    pc = "done" =>
        /\ \A c \in asciiPunct :
               rawText = <<"\\", c>> => out = ParagraphHTML(writeEscaped(<<c>>))
        /\ \A c \in {"a", "b", "1"} :
               rawText = <<"\\", c>> => out = ParagraphHTML(<<"\\", c>>)
        /\ rawText = <<"\\", "*", "a", "*">> => out = ParagraphHTML(<<"*", "a", "*">>)
        /\ rawText = <<"\\", "<", "a", ">">> =>
               out = ParagraphHTML(<<"&", "l", "t", ";", "a", "&", "g", "t", ";">>)

\* The number of backslashes in a row that end right before the index p.
RECURSIVE BackslashesBefore(_, _)
BackslashesBefore(s, p) ==
    IF p > 0 /\ At(s, p - 1) = "\\" THEN 1 + BackslashesBefore(s, p - 1) ELSE 0

\* The tags of the text whose "<" no unescaped backslash precedes.
UnescapedTags ==
    SelectSeq(Matches(TrimmedText, "rawHTML"),
              LAMBDA m : BackslashesBefore(TrimmedText, m[1]) % 2 = 0)

\* The bytes of the RawHTML nodes underneath the text node, in their order.
RawHTMLNodes ==
    SelectSeq(IF Len(heap.nodes) < 2 THEN <<>> ELSE ContentsOf(heap, 2),
              LAMBDA c : c.type = "RawHTML")

\* C20: the "<" of a raw HTML match stays literal text iff an odd number of
\* backslashes in a row precedes it; after an escaped backslash, as in
\* backslash, backslash, "<a>", the tag is a RawHTML node with its bytes.
C20_TagAfterEscapedBackslash ==
    pc = "processCodeSpans" =>
        RawHTMLNodes = [k \in 1..Len(UnescapedTags) |->
                           NodeContent("RawHTML", Slice(TrimmedText, UnescapedTags[k][1],
                                                        UnescapedTags[k][2]))]

\* What is between the angle brackets of the text.
Body == Slice(TrimmedText, 1, Len(TrimmedText) - 1)

\* The text is one autolink.
IsAutolink ==
    /\ Len(TrimmedText) > 2
    /\ autolinkEnd(TrimmedText, 0) = Len(TrimmedText)

\* Where the autolink points.
Destination ==
    IF isAbsoluteURI(Body) THEN Body ELSE <<"m", "a", "i", "l", "t", "o", ":">> \o Body

\* The tree holds the Link node of the autolink, with its one child.
LinkInTree ==
    \E l \in 1..Len(heap.nodes) :
        /\ heap.nodes[l].content = NodeContent("Link", Destination)
        /\ heap.nodes[l].parent # 0
        /\ Len(ChildrenOf(heap, l)) = 1
        /\ heap.nodes[heap.nodes[l].firstChild].content = NodeContent("LiteralText", Body)

\* <a href="U">body</a> in a paragraph.
LinkHTML ==
    ParagraphHTML(<<"<", "a", " ", "h", "r", "e", "f", "=", "\"">> \o
                  writeEscaped(Destination) \o <<"\"", ">">> \o Body \o
                  <<"<", "/", "a", ">">>)

\* Once processAutolinks has run, the Link node is in the tree.
LinkNodeBuilt ==
    (IsAutolink /\ pc \in {"processBackslashEscapes", "processEmphasis", "emphasisLoop",
                            "processHardLineBreaks", "processSoftLineBreaks", "ToHTML",
                            "done"})
        => LinkInTree

\* C21: an autolink yields a Link node whose destination is the URI, or
\* "mailto:" and the address, and whose only child holds the body; it is
\* rendered as <a href="U">, the body, </a>.
C21_AutolinkRendered ==
    /\ LinkNodeBuilt
    /\ (IsAutolink /\ pc = "done") => out = LinkHTML

\* The value of the digits, cut off above U+10FFFF.
RECURSIVE ValueOf(_, _, _)
ValueOf(digits, base, v) ==
    IF digits = <<>> THEN v
    ELSE ValueOf(Tail(digits), base, Min(v * base + digitValue(Head(digits), base), 1114112))

\* The line of the input, which is one paragraph.
EntityLine == SubSeq(data, 1, Len(data) - 1)

\* The bytes between the "&" that starts the line and the first ";".
Entity == Slice(EntityLine, 1, IndexByteFrom(EntityLine, 1, ";"))

IsHexEntity == Len(Entity) >= 2 /\ Entity[1] = "#" /\ Entity[2] \in {"x", "X"}

EntityDigits == IF IsHexEntity THEN From(Entity, 2) ELSE From(Entity, 1)

EntityBase == IF IsHexEntity THEN 16 ELSE 10

\* "&#" and 1 to 8 decimal digits and ";", or "&#x" or "&#X" and 1 to 8
\* hexadecimal digits and ";".
IsNumericEntity ==
    /\ IndexByteFrom(EntityLine, 1, ";") > 0
    /\ Len(Entity) >= 1
    /\ Entity[1] = "#"
    /\ Len(EntityDigits) \in 1..8
    /\ \A k \in 1..Len(EntityDigits) : digitValue(EntityDigits[k], EntityBase) >= 0

\* The UTF-8 encoding of the code point, U+FFFD for what is none.
DecodedEntity ==
    IF ValueOf(EntityDigits, EntityBase, 0) > 1114111
       \/ ValueOf(EntityDigits, EntityBase, 0) \in 55296..57343
    THEN EncodeRune(RuneError)
    ELSE EncodeRune(ValueOf(EntityDigits, EntityBase, 0))

\* The text of the paragraph after the entities are decoded.
DecodedLine ==
    IF IsNumericEntity
    THEN DecodedEntity \o From(EntityLine, IndexByteFrom(EntityLine, 1, ";") + 1)
    ELSE EntityLine

\* C22: a numeric entity is decoded only with 1 to 8 digits, to the UTF-8
\* encoding of its code point, or of U+FFFD for a value that is no valid
\* code point; every other sequence that starts with "&" leaves the "&"
\* as literal text and consumes nothing else.
C22_NumericEntityDecoded ==
    (pc = "done" /\ err = "nil" /\ Len(data) > 1 /\ Head(data) = "&") =>
        out = ParagraphHTML(writeEscaped(DecodedLine))

\* The paragraph text with its breaks made: at each newline the spaces
\* before it and at the start of the next line go, and so does the
\* backslash that makes a hard break; the break is <br /> after two or
\* more spaces or a backslash, and a newline otherwise.
RECURSIVE BrokenLines(_)
BrokenLines(s) ==
    IF IndexByteFrom(s, 0, "\n") < 0 THEN writeEscaped(s)
    ELSE LET before == Slice(s, 0, IndexByteFrom(s, 0, "\n"))
             stripped == TrimRightSpaces(before)
             byBackslash == before # <<>> /\ before[Len(before)] = "\\"
             hard == Len(before) - Len(stripped) >= 2 \/ byBackslash
         IN writeEscaped(IF byBackslash THEN SubSeq(before, 1, Len(before) - 1)
                         ELSE stripped)
            \o (IF hard THEN <<"<", "b", "r", " ", "/", ">", "\n">> ELSE <<"\n">>)
            \o BrokenLines(TrimLeftSpaces(From(s, IndexByteFrom(s, 0, "\n") + 1)))

\* No backslash of the text escapes a byte.
NoEscapeIn(s) == \A k \in 1..(Len(s) - 1) : ~(s[k] = "\\" /\ isASCIIPunct(s[k + 1]))

\* The document is one paragraph.
OneParagraph == Len(nodes) = 2 /\ nodes[2].kind = "paragraph"

\* C23: each interior newline of a paragraph becomes a hard break iff the
\* text before it ends in two or more spaces or in a backslash, and a soft
\* break otherwise; the spaces directly before the newline and at the start
\* of the next line are removed and no other byte is dropped; the end of
\* the last line makes no hard break.
C23_LineBreaks ==
    (pc = "done" /\ err = "nil" /\ OneParagraph
     /\ NoEscapeIn(TrimRightWhitespace(nodes[2].content)))
        => out = ParagraphHTML(BrokenLines(TrimRightWhitespace(nodes[2].content)))

\* The step that takes a line from the scanner and expands its tabs.
TakesLine == pc = "scan" /\ pc' = "match"

\* The line taken, as the scanner returns it.
Token == Scan(data, scanner).token

\* Every tab replaced by 4 - (offset mod 4) spaces, the offset being that
\* of the tab in l.
ByOffset(l) ==
    LET piece(k) == IF l[k] = "\t" THEN Repeat(" ", 4 - ((k - 1) % 4)) ELSE <<l[k]>>
        upTo[k \in 0..Len(l)] == IF k = 0 THEN <<>> ELSE upTo[k - 1] \o piece(k)
    IN upTo[Len(l)]

Characters(s) == Len(SelectSeq(s, LAMBDA c : c \notin continuationBytes))

\* Every tab replaced by spaces up to the next multiple of 4 characters of
\* what has been written.
RECURSIVE ToTabStops(_, _)
ToTabStops(l, written) ==
    IF l = <<>> THEN written
    ELSE ToTabStops(Tail(l),
                    IF Head(l) = "\t"
                    THEN written \o Repeat(" ", 4 - (Characters(written) % 4))
                    ELSE Append(written, Head(l)))

\* The line is UTF-8 text.
IsUTF8(l) ==
    \A k \in 1..Len(l) :
        /\ l[k] \notin invalidBytes
        /\ l[k] \in leadBytes => k < Len(l) /\ l[k + 1] \in continuationBytes
        /\ l[k] \in continuationBytes => k > 1 /\ l[k - 1] \in leadBytes

Nodes == 1..Len(heap.nodes)

\* The nodes met from n by following next, n first, at most k of them.
RECURSIVE Walk(_, _, _)
Walk(h, n, k) ==
    IF n = 0 \/ k = 0 THEN <<>> ELSE <<n>> \o Walk(h, h.nodes[n].next, k - 1)

\* The child list of p.
Children(h, p) == Walk(h, h.nodes[p].firstChild, Len(h.nodes))

InChildList(h, n, p) == \E k \in 1..Len(Children(h, p)) : Children(h, p)[k] = n

\* The links of n agree with those of its parent and of its siblings.
Linked(h, n) ==
    LET p == h.nodes[n].parent
        prev == h.nodes[n].prev
        next == h.nodes[n].next
    IN p # 0 =>
           /\ (prev = 0) <=> (h.nodes[p].firstChild = n)
           /\ (next = 0) <=> (h.nodes[p].lastChild = n)
           /\ prev # 0 => h.nodes[prev].next = n
           /\ next # 0 => h.nodes[next].prev = n

\* n has no parent and no siblings.
Detached(h, n) ==
    h.nodes[n].parent = 0 /\ h.nodes[n].prev = 0 /\ h.nodes[n].next = 0

\* C25: after any sequence of PrependChild, AppendChild, InsertBefore,
\* InsertAfter and Remove calls that did not panic the nodes form a
\* consistent doubly-linked tree: a node has a parent iff it is in that
\* parent's child list, the nodes of one child list have the same parent,
\* prev and next agree with the parent's firstChild and lastChild and with
\* each other, and Remove leaves the removed node with nil parent, prev
\* and next.
C25_ConsistentTree ==
    heap.panic = "" =>
        /\ \A n \in Nodes :
               /\ heap.nodes[n].parent # 0 => InChildList(heap, n, heap.nodes[n].parent)
               /\ \A p \in Nodes : InChildList(heap, n, p) => heap.nodes[n].parent = p
               /\ Linked(heap, n)
        /\ \A n \in Nodes :
               heap.nodes[n].parent # 0 => Detached(Remove(heap, n), n)

\* The child list of p with r in the place of n.
WithReplaced(h, p, n, r) ==
    [k \in 1..Len(Children(h, p)) |->
        IF Children(h, p)[k] = n THEN r ELSE Children(h, p)[k]]

\* r stands in h2 where n stood in h.
Replaced(h, h2, n, r) ==
    LET p == h.nodes[n].parent
    IN /\ h2.panic = ""
       /\ h2.nodes[r].parent = p
       /\ h2.nodes[r].prev = h.nodes[n].prev
       /\ h2.nodes[r].next = h.nodes[n].next
       /\ h.nodes[n].prev # 0 => h2.nodes[h.nodes[n].prev].next = r
       /\ h.nodes[n].next # 0 => h2.nodes[h.nodes[n].next].prev = r
       /\ h.nodes[p].firstChild = n => h2.nodes[p].firstChild = r
       /\ h.nodes[p].lastChild = n => h2.nodes[p].lastChild = r
       /\ Children(h2, p) = WithReplaced(h, p, n, r)
       /\ Detached(h2, n)

\* C26: n.Replace(r), called with n attached and r unattached, puts r
\* exactly where n was, leaves the order of the other children unchanged
\* and leaves n with nil parent, prev and next.
C26_ReplaceTakesPlace ==
    heap.panic = "" =>
        \A n, r \in Nodes :
            (heap.nodes[n].parent # 0 /\ heap.nodes[r].parent = 0)
                => Replaced(heap, Replace(heap, n, r), n, r)

\* The call that gave h2 panicked and wrote no link.
Rejected(h2) == h2.panic # "" /\ h2.nodes = heap.nodes

\* C27: every attach operation panics when the node to attach already has
\* a parent, and InsertBefore, InsertAfter, Remove and Replace panic when
\* the receiver has no parent; a rejected call leaves every link of every
\* node unchanged.
C27_RejectedCallWritesNothing ==
    heap.panic = "" =>
        \A n, c \in Nodes :
            /\ heap.nodes[c].parent # 0 =>
                   /\ Rejected(PrependChild(heap, n, c))
                   /\ Rejected(AppendChild(heap, n, c))
                   /\ Rejected(InsertBefore(heap, n, c))
                   /\ Rejected(InsertAfter(heap, n, c))
                   /\ Rejected(InsertBefore005(heap, n, c))
                   /\ Rejected(InsertAfter005(heap, n, c))
                   /\ Rejected(Replace(heap, n, c))
            /\ heap.nodes[n].parent = 0 =>
                   /\ Rejected(InsertBefore(heap, n, c))
                   /\ Rejected(InsertAfter(heap, n, c))
                   /\ Rejected(InsertBefore005(heap, n, c))
                   /\ Rejected(InsertAfter005(heap, n, c))
                   /\ Rejected(Remove(heap, n))
                   /\ Rejected(Replace(heap, n, c))

\* A call to attach an attached node has been rejected, in a tree of a
\* parent and two children.
C27_Witness ==
    /\ heap.panic = "child already has a parent"
    /\ \E p, a, b \in Nodes :
           /\ a # b
           /\ Children(heap, p) = <<a, b>>
           /\ heap.nodes[a].parent = p
           /\ heap.nodes[b].parent = p

\* The nodes met from n by following parent, n not among them, at most k
\* of them.
RECURSIVE Ancestors(_, _, _)
Ancestors(h, n, k) ==
    IF h.nodes[n].parent = 0 \/ k = 0 THEN {}
    ELSE {h.nodes[n].parent} \cup Ancestors(h, h.nodes[n].parent, k - 1)

\* Following parent from n ends at a node without parent.
RECURSIVE ReachesRoot(_, _, _)
ReachesRoot(h, n, k) ==
    \/ h.nodes[n].parent = 0
    \/ k > 0 /\ ReachesRoot(h, h.nodes[n].parent, k - 1)

\* C28: after any sequence of attach and detach operations that did not
\* panic the nodes form a forest: no node is its own ancestor or its own
\* child, every attached node is in the child list of exactly one parent,
\* and following Parent() from any node reaches a parentless root; this
\* includes attaching a parentless node to itself or below itself.
C28_Forest ==
    heap.panic = "" =>
        \A n \in Nodes :
            /\ n \notin Ancestors(heap, n, Len(heap.nodes))
            /\ ~InChildList(heap, n, n)
            /\ heap.nodes[n].parent # 0 =>
                   {p \in Nodes : InChildList(heap, n, p)} = {heap.nodes[n].parent}
            /\ ReachesRoot(heap, n, Len(heap.nodes))

\* The four escaped characters and what stands for each.
Entities ==
    << <<"\"", <<"&", "q", "u", "o", "t", ";">> >>,
       <<"&", <<"&", "a", "m", "p", ";">> >>,
       <<"<", <<"&", "l", "t", ";">> >>,
       <<">", <<"&", "g", "t", ";">> >> >>

Special == {Entities[k][1] : k \in 1..Len(Entities)}

\* t with every special character replaced, position by position.
Replaced4(t) ==
    LET piece(c) == IF c \in Special
                    THEN (CHOOSE k \in 1..Len(Entities) : Entities[k][1] = c)
                    ELSE 0
        upTo[k \in 0..Len(t)] ==
            IF k = 0 THEN <<>>
            ELSE upTo[k - 1] \o (IF piece(t[k]) = 0 THEN <<t[k]>>
                                  ELSE Entities[piece(t[k])][2])
    IN upTo[Len(t)]

\* s starts with p.
HasPrefix(s, p) == Len(s) >= Len(p) /\ SubSeq(s, 1, Len(p)) = p

\* s with each of the four entities turned back into its character, read
\* from left to right.
RECURSIVE Unescape(_)
Unescape(s) ==
    IF s = <<>> THEN <<>>
    ELSE IF \E k \in 1..Len(Entities) : HasPrefix(s, Entities[k][2])
         THEN LET k == CHOOSE k \in 1..Len(Entities) : HasPrefix(s, Entities[k][2])
              IN <<Entities[k][1]>> \o Unescape(SubSeq(s, Len(Entities[k][2]) + 1, Len(s)))
    ELSE <<Head(s)>> \o Unescape(Tail(s))

\* The tree holds the paragraph and Text nodes only.
OnlyText ==
    \A n \in 1..Len(heap.nodes) : heap.nodes[n].content.type \in {"Paragraph", "Text"}

\* C29: writeEscaped writes its input with exactly the quotation mark, the
\* ampersand, "<" and ">" replaced by &quot;, &amp;, &lt; and &gt; and
\* every other byte unchanged and in order; the output holds no raw
\* quotation mark, "<" or ">", un-escaping it gives back the input, and
\* escaping twice gives the same bytes as escaping once iff the text holds
\* none of the four characters.
C29_Escaped ==
    LET once == writeEscaped(rawText)
    IN /\ once = Replaced4(rawText)
       /\ \A k \in 1..Len(once) : once[k] \notin {"\"", "<", ">"}
       /\ Unescape(once) = rawText
       /\ (writeEscaped(once) = once) <=> (\A k \in 1..Len(rawText) : rawText[k] \notin Special)
       /\ (pc = "done" /\ OnlyText) => out = ParagraphHTML(Replaced4(rawText))

\* A text with all four characters has been written as a paragraph.
C29_Witness ==
    /\ pc = "done"
    /\ rawText = <<"\"", "&", "<", ">">>
    /\ out = ParagraphHTML(<<"&", "q", "u", "o", "t", ";", "&", "a", "m", "p", ";",
                             "&", "l", "t", ";", "&", "g", "t", ";">>)

\* The largest of a set of numbers, 0 for the empty set.
Largest(S) == IF S = {} THEN 0 ELSE CHOOSE m \in S : \A k \in S : k <= m

\* The most Emphasis and StrongEmphasis nodes on a path from n downwards.
RECURSIVE EmDepth(_, _)
EmDepth(h, n) ==
    (IF h.nodes[n].content.type \in {"Emphasis", "StrongEmphasis"} THEN 1 ELSE 0)
    + Largest({EmDepth(h, ChildrenOf(h, n)[k]) : k \in 1..Len(ChildrenOf(h, n))})

\* C30: the inline analyzer bounds nesting: delimiters that would nest
\* Emphasis and StrongEmphasis deeper than the maximum depth are left as
\* literal text, so the depth of the inline tree does not grow with the
\* input.
C30_NestingBounded == pc = "done" => EmDepth(heap, 1) <= DepthLimit

\* The conversion stands between two lines, or after the last one.
BetweenLines == pc \in {"scan", "inlines"}

\* The kind of the k-th open block, the bottom being the first.
OpenKind(k) == nodes[openBlocks[k]].kind

\* C31: after every processed line the open-block stack is non-empty, its
\* bottom is the Document, every later element is the last child of the
\* element directly below it, every element but possibly the top is a
\* Document or BlockQuote, and the only leaves on the stack are Paragraph
\* and IndentedCodeBlock.
C31_OpenBlockStack ==
    BetweenLines =>
        /\ openBlocks # <<>>
        /\ openBlocks[1] = 1
        /\ OpenKind(1) = "document"
        /\ \A k \in 2..Len(openBlocks) :
               LET below == nodes[openBlocks[k - 1]].children
               IN below # <<>> /\ below[Len(below)] = openBlocks[k]
        /\ \A k \in 1..(Len(openBlocks) - 1) : OpenKind(k) \in {"document", "blockQuote"}
        /\ \A k \in 1..Len(openBlocks) :
               OpenKind(k) \in {"document", "blockQuote", "paragraph", "indentedCodeBlock"}

\* A heading has been made and closed inside a block quote that stays open
\* with a paragraph after it.
C31_Witness ==
    /\ pc = "scan"
    /\ Len(openBlocks) = 3
    /\ OpenKind(2) = "blockQuote"
    /\ OpenKind(3) = "paragraph"
    /\ \E n \in 1..Len(nodes) : nodes[n].kind = "atxHeader"

\* The parser holds a line it has not yet appended or consumed.
HoldsLine == pc \in {"match", "open", "append"}

\* C32: the line the block parser works on stays non-empty and ends in
\* "\n", with no "\r", "\t" or other "\n" in it, from the moment the
\* sentinel is appended until the line is appended to a block or consumed,
\* through every strip of phase 1 and phase 2; so indentation(line) finds a
\* non-space byte and its assertion does not fire.
C32_LineEndsInNewline ==
    HoldsLine =>
        /\ line # <<>>
        /\ line[Len(line)] = "\n"
        /\ \A k \in 1..(Len(line) - 1) : line[k] \notin {"\n", "\r", "\t"}
        /\ ~indentationAsserts(line)
        /\ indentation(line) < Len(line)

\* A line that ended in "\r\n" has lost a block quote marker and the four
\* spaces of an indented code block, and is about to be appended.
C32_Witness ==
    /\ pc = "append"
    /\ \E k \in 1..Len(data) : data[k] = "\r"
    /\ Len(openBlocks) = 3
    /\ OpenKind(3) = "indentedCodeBlock"
    /\ line = <<"c", "\n">>

\* The open blocks of block.go from the first that fails to match the
\* line on.
BlockGoUnmatched ==
    LET m == blockGoMatched(P, line)
    IN IF m.allMatched THEN {}
       ELSE {openBlocks[k] : k \in (m.open + 2)..Len(openBlocks)}

\* C33: after phase 1 of each line every open block above the last matched
\* one is removed from the open-block stack before any new block is
\* opened, so a block that failed to match takes no part in the matching
\* of a later line.
C33_UnmatchedBlocksClosed ==
    [][pc = "match" =>
          \A k \in 1..Len(openBlocks') : openBlocks'[k] \notin BlockGoUnmatched]_vars

\* The input holds spaces and line endings only.
OnlySpaces(d) == \A k \in 1..Len(d) : d[k] \in {" ", "\n", "\r"}

\* C34: a line of spaces only never opens an IndentedCodeBlock: met while
\* no code block is open it is consumed without creating any block, so an
\* input of whitespace-only lines gives a Document with no children.
C34_BlankLineOpensNoBlock ==
    [][/\ (pc = "open" /\ isBlank(line) /\ ~AcceptsLiteralLines(openBlock(P).kind))
           => (nodes' = nodes /\ pc' = "scan")
       /\ (pc' = "inlines" /\ OnlySpaces(data)) => nodes'[1].children = <<>>]_vars

\* Some block has two BlockQuote children next to each other.
AdjacentQuotes(ns) ==
    \E n \in 1..Len(ns) : \E k \in 1..(Len(ns[n].children) - 1) :
        /\ ns[ns[n].children[k]].kind = "blockQuote"
        /\ ns[ns[n].children[k + 1]].kind = "blockQuote"

\* The line is blank at some nesting level: after some of its block quote
\* markers nothing but spaces is left.
RECURSIVE BlankAtSomeLevel(_)
BlankAtSomeLevel(l) ==
    \/ isBlank(l)
    \/ FirstNonSpace(l) = ">" /\ BlankAtSomeLevel(stripBlockQuoteMarker(l))

\* A line of the input is blank at some nesting level.
HasBlankLine(d) == \E k \in 1..Len(InputLines(d)) : BlankAtSomeLevel(InputLines(d)[k])

\* A block quote is open right under the document.
QuoteOpen == Len(openBlocks) >= 2 /\ OpenKind(2) = "blockQuote"

\* C35: two BlockQuote nodes are adjacent siblings only if a blank line
\* separated their lines in the input: a line that is not blank leaves the
\* open BlockQuote open, so that the lines of a run without a blank line
\* go into the same BlockQuote node, and a blank line ends it.
C35_QuotesSplitByBlankLine ==
    [][/\ (pc = "match" /\ QuoteOpen /\ ~isBlank(line)) =>
              (Len(openBlocks') >= 2 /\ openBlocks'[2] = openBlocks[2])
       /\ (pc = "match" /\ QuoteOpen /\ isBlank(line)) => openBlocks' = <<1>>
       /\ (pc = "open" /\ QuoteOpen) =>
              (Len(openBlocks') >= 2 /\ openBlocks'[2] = openBlocks[2])
       /\ AdjacentQuotes(nodes') => HasBlankLine(data)]_vars

\* Two block quotes next to each other, a blank line between their lines.
C35_Witness ==
    /\ pc = "scan"
    /\ data = <<">", " ", "a", "\n", "\n", ">", " ", "a", "\n">>
    /\ AdjacentQuotes(nodes)
    /\ Len(nodes[1].children) = 2

\* The text that the node n and what is below it stand for, read back from
\* the tree: the bytes of a Text node, k times the token "D" on each side
\* of the children of an Emphasis (k = 1) or StrongEmphasis (k = 2) node,
\* the name of its type for a node of another type without children.
RECURSIVE ReadBack(_, _)
RECURSIVE ReadBackAll(_, _)
ReadBack(h, n) ==
    IF ContentOf(h, n).type = "Text" THEN ContentOf(h, n).bytes
    ELSE IF ContentOf(h, n).type = "Emphasis"
    THEN <<"D">> \o ReadBackAll(h, ChildrenOf(h, n)) \o <<"D">>
    ELSE IF ContentOf(h, n).type = "StrongEmphasis"
    THEN <<"D", "D">> \o ReadBackAll(h, ChildrenOf(h, n)) \o <<"D", "D">>
    ELSE IF ChildrenOf(h, n) = <<>> THEN <<ContentOf(h, n).type>>
    ELSE ReadBackAll(h, ChildrenOf(h, n))

ReadBackAll(h, ns) ==
    IF ns = <<>> THEN <<>> ELSE ReadBack(h, Head(ns)) \o ReadBackAll(h, Tail(ns))

\* The text new is the text old, but for delimiters of old for which new
\* has the token of an emphasis node.
Covers(new, old) ==
    /\ Len(new) = Len(old)
    /\ \A k \in 1..Len(old) :
           \/ new[k] = old[k]
           \/ new[k] = "D" /\ old[k] \in {"*", "_"}

\* The text holds none of the bytes that the passes before processEmphasis
\* take for themselves.
OnlyEmphasisBytes(text) == \A k \in 1..Len(text) : text[k] \in {"*", "_", "a", " "}

\* C36: processEmphasis neither loses nor invents text.  Every round of
\* its loops leaves the text that is read back from the tree as it was,
\* delimiters of a match replaced by the emphasis node; a string of more
\* than three delimiters is left in its Text node; and when the walk is
\* over the tree of a text of delimiters, letters and spaces reads back
\* as that text.
C36_EmphasisKeepsText ==
    [][/\ pc = "emphasisLoop" =>
              /\ pc' # "panic"
              /\ Covers(ReadBack(heap', 1), ReadBack(heap, 1))
       /\ (pc = "emphasisLoop" /\ em.child # 0 /\ emphasisBranch(E) = "ignore") =>
              heap' = heap
       /\ (pc' = "processHardLineBreaks" /\ OnlyEmphasisBytes(rawText)) =>
              Covers(ReadBack(heap', 1), trimWhitespaceRight(rawText))]_vars

\* The walk is over for **a*: one delimiter is left as text, before an
\* Emphasis node around the letter.
C36_Witness ==
    /\ pc = "processHardLineBreaks"
    /\ rawText = <<"*", "*", "a", "*">>
    /\ ReadBack(heap, 1) = <<"*", "D", "a", "D">>

\* The types of content for which contentHTML returns true.
WritesContent == {"Text", "CodeSpan", "RawHTML", "HardLineBreak"}

\* No node of h that writes content has a child.
WritersAreLeaves(h) ==
    \A n \in 1..Len(h.nodes) :
        ContentOf(h, n).type \in WritesContent => Get(h, n, "firstChild") = 0

\* No node of h holds raw text or a raw line.
NothingRaw(h) ==
    \A n \in 1..Len(h.nodes) : ContentOf(h, n).type \notin {"RawText", "RawLine"}

-----------------------------------------------------------------------------
(* Both conversions, each run to its end: the block parser of part_000 on  *)
(* an input, parseInlines and ToHTML on the text of a paragraph.  The      *)
(* program is one goroutine, which takes its next step whenever it has     *)
(* one.                                                                    *)

\* Before the call: no input yet.
InitConversion ==
    /\ pc = "input"
    /\ data = <<>>
    /\ scanner = newScanner
    /\ line = <<>>
    /\ nodes = newParser.nodes
    /\ openBlocks = newParser.openBlocks
    /\ out = <<>>
    /\ err = "nil"
    /\ rawText = <<>>
    /\ heap = emptyHeap
    /\ em = emNone
    /\ calls = 0

\* The block parser is called with an input.
CallParse ==
    /\ pc = "input"
    /\ data' \in QuoteInputs \cup CoreInputs
    /\ pc' = "scan"
    /\ UNCHANGED <<calls, rawText, heap, em, scanner, line, nodes, openBlocks, out, err>>

\* parseInlines is called on the RawText node of a paragraph.
CallParseInlines ==
    /\ pc = "input"
    /\ rawText' \in EmphasisTexts \cup BoundaryTexts \cup CoreTexts
    /\ heap' = paragraphOf(rawText')
    /\ pc' = "parseInlines"
    /\ UNCHANGED <<calls, em, data, scanner, line, nodes, openBlocks, out, err>>

NextConversion == CallParse \/ CallParseInlines \/ Next \/ NextInline

\* The conversion has returned, or has panicked.
Returned == pc \in {"done", "panic"}

\* The goroutine goes on until the conversion has returned.  A step is
\* possible in every state but these, so that this is weak fairness of
\* NextConversion, WF_vars(NextConversion), with ~Returned written for
\* ENABLED <<NextConversion>>_vars.
Fairness == []<>Returned \/ []<><<NextConversion>>_vars

SpecConversion == InitConversion /\ [][NextConversion]_vars /\ Fairness

\* line[indentation(line)] is a byte of the line.
IndexInLine == pc \in {"match", "open"} => indentation(line) < Len(line)

\* C38: every conversion of a finite input comes to its end, and without
\* a nil dereference.  An iteration of the loop of phase 2 that is followed
\* by another one has stripped a block quote marker and shortened the
\* line; the passes of the inline analyzer and the loop of processEmphasis
\* that moves the siblings end without following a nil pointer.
C38_ConversionTerminates ==
    /\ pc = "input" ~> Returned
    /\ [](heap.panic = "" /\ IndexInLine)
    /\ [][(pc = "open" /\ pc' = "open") =>
              /\ FirstNonSpace(line) = ">"
              /\ Len(line') < Len(line)
              /\ OpenKind(Len(openBlocks))' = "blockQuote"]_vars
    /\ [][(pc = "emphasisLoop" /\ emphasisBranch(E) = "close") =>
              /\ pc' = "emphasisLoop"
              /\ ContentOf(heap', Len(heap'.nodes)).type \in {"Emphasis", "StrongEmphasis"}
              /\ em'.child = Get(heap', Len(heap'.nodes), "next")
              /\ em'.child = Len(heap.nodes) + 1]_vars

\* An input with a block quote in a block quote has been converted: the
\* loop of phase 2 has run twice on its line.
C38_Witness ==
    /\ pc = "done"
    /\ data = <<">", " ", ">", " ", "a", "\n">>
    /\ Len(nodes) >= 4
    /\ out # <<>>

-----------------------------------------------------------------------------
(* preprocess of preprocess.go: a Document node with one RawLine child per *)
(* line of the input.  The tree is the heap; node 1 is the root.           *)

\* The loop that counts the leading spaces of the line declares a variable
\* of its own, `indentation := 0`; this is the value it has when the loop
\* is left.
loopIndentation(l) ==
    IF \E k \in 1..Len(l) : l[k] # " "
    THEN (CHOOSE k \in 1..Len(l) : l[k] # " " /\ \A j \in 1..(k - 1) : l[j] = " ") - 1
    ELSE Len(l)

\* The variable of `var indentation int`, which the RawLine is made from:
\* nothing assigns to it, the loop has its own.
outerIndentation(l) == 0

\* &RawLine{Content: line, Indentation: indentation,
\*          IsBlank: line[indentation] == '\n',
\*          FirstNonSpaceChar: line[indentation]}
RawLine(l) ==
    [type |-> "RawLine", bytes |-> l,
     Indentation |-> outerIndentation(l),
     IsBlank |-> l[outerIndentation(l) + 1] = "\n",
     FirstNonSpaceChar |-> l[outerIndentation(l) + 1]]

\* Lines of spaces, tabs and a letter.
RawLines == Seqs({" ", "\t", "a"}, MaxRawLen)

RawInputs == {Join(ls, LF, TRUE) : ls \in Seqs(RawLines, MaxRawLines)} \cup {LongLine \o LF}

\* root := NewNode(&Document{}) and the scanner.
InitPreprocess ==
    /\ data \in RawInputs
    /\ scanner = newScanner
    /\ heap = NewNode(emptyHeap, NodeContent("Document", <<>>))
    /\ pc = "preprocess"
    /\ err = "nil"
    /\ line = <<>>
    /\ nodes = newParser.nodes
    /\ openBlocks = newParser.openBlocks
    /\ out = <<>>
    /\ rawText = <<>>
    /\ em = emNone
    /\ calls = 0

\* scanner.Scan() returns true: one round of the loop.
PreprocessLine ==
    /\ pc = "preprocess"
    /\ LET r == Scan(data, scanner) IN
        /\ r.ok
        /\ scanner' = r.sc
        /\ heap' = appendNew(heap, 1, RawLine(Append(tabsToSpaces(r.token), "\n")))
    /\ UNCHANGED <<calls, rawText, em, data, line, nodes, openBlocks, pc, out, err>>

\* scanner.Scan() returns false at the end of the input: return root, nil.
PreprocessEnd ==
    /\ pc = "preprocess"
    /\ LET r == Scan(data, scanner) IN
        /\ ~r.ok
        /\ ScannerErr(r.sc) = "nil"
        /\ scanner' = r.sc
    /\ pc' = "done"
    /\ UNCHANGED <<calls, rawText, heap, em, data, line, nodes, openBlocks, out, err>>

\* scanner.Scan() returns false with an error: return nil, err.
PreprocessFail ==
    /\ pc = "preprocess"
    /\ LET r == Scan(data, scanner) IN
        /\ ~r.ok
        /\ ScannerErr(r.sc) # "nil"
        /\ scanner' = r.sc
        /\ err' = ScannerErr(r.sc)
    /\ heap' = emptyHeap
    /\ pc' = "done"
    /\ UNCHANGED <<calls, rawText, em, data, line, nodes, openBlocks, out>>

NextPreprocess == PreprocessLine \/ PreprocessEnd \/ PreprocessFail

SpecPreprocess == InitPreprocess /\ [][NextPreprocess]_vars

\* The number of spaces the line starts with.
RECURSIVE LeadingSpaces(_)
LeadingSpaces(l) ==
    IF l = <<>> \/ Head(l) # " " THEN 0 ELSE 1 + LeadingSpaces(Tail(l))

\* The RawLine c is the one of the line l.
DescribesLine(c, l) ==
    /\ c.type = "RawLine"
    /\ c.bytes = l
    /\ c.Indentation = LeadingSpaces(l)
    /\ c.IsBlank <=> LeadingSpaces(l) = Len(l) - 1
    /\ c.FirstNonSpaceChar = l[LeadingSpaces(l) + 1]

\* C39: preprocess returns a Document node with one RawLine child per line
\* of the input, in the order of the input; Content is the line with its
\* tabs expanded and one newline after it, Indentation the number of
\* spaces it starts with, IsBlank true iff only spaces come before the
\* newline, FirstNonSpaceChar the first byte that is no space.
C39_OneRawLinePerLine ==
    (pc \in {"preprocess", "done"} /\ err = "nil") =>
        /\ ContentOf(heap, 1).type = "Document"
        /\ Len(ChildrenOf(heap, 1)) <= Len(InputLines(data))
        /\ pc = "done" => Len(ChildrenOf(heap, 1)) = Len(InputLines(data))
        /\ \A k \in 1..Len(ChildrenOf(heap, 1)) :
               DescribesLine(ContentOf(heap, ChildrenOf(heap, 1)[k]), InputLines(data)[k])


=============================================================================
